---------------------------- MODULE Spec2Model ----------------------------
(***************************************************************************)
(* A model of the read-only QNX4 filesystem driver of qnx4_patched.py:     *)
(* the mount check, the extent-chain walk of an inode, the directory       *)
(* iterator and the path resolver.                                         *)
(*                                                                         *)
(* The volume is a byte source.  It is modelled by its size in bytes and   *)
(* by the content of the 64-byte slots and the 512-byte overflow blocks    *)
(* the driver parses; every slot or block the model does not list reads    *)
(* as zero bytes, and a read that reaches past the size is short.          *)
(***************************************************************************)
EXTENDS Integers, Sequences, FiniteSets, TLC

(***************************************************************************)
(* Format constants of c_qnx4, with the place of the driver that uses each *)
(***************************************************************************)
QNX4_BLOCK_SIZE == 512
QNX4_INODES_PER_BLOCK == 8
QNX4_DIR_ENTRY_SIZE == 64
QNX4_ROOT_INO == 1
QNX4_FILE_USED == 1
QNX4_FILE_LINK == 8
QNX4_SHORT_NAME_MAX == 16
QNX4_NAME_MAX == 48
MARKER_LEN == 16

(* stat.S_IFMT and the file types the driver compares with, as numbers *)
S_IFMT_MASK == 61440
S_IFDIR == 16384
S_IFREG == 32768
S_IFLNK == 40960

(***************************************************************************)
(* Bounds of the model                                                     *)
(***************************************************************************)
MaxExtents == 3        \* an inode's di_num_xtnts is drawn from 0..MaxExtents
MaxXblkXtnts == 2      \* an overflow block's xblk_num_xtnts is drawn from 0..MaxXblkXtnts
MaxLog == 6            \* the histories (emitted runs, seeks) record this many entries
MaxDepth == 3
MaxCalls == 2
InodeCacheSize == 2
MaxReads == 5          \* get nests at most this many frames
MaxOpens == 2           \* the streams the model opens and closes
MaxStreamReads == 3     \* the reads of one stream
MaxFiles == 2           \* a scan finds no file or this many
MaxThreads == 3         \* the worker threads the front end starts

VARIABLES
    vol,          \* the volume: [size, slots, xblks, lfns, data]
    fs_state,     \* "unmounted" | "mounted" | "InvalidFilesystemError"
    root,         \* QNX4.root: << >> while there is none, else <<its inode number>>
    err,          \* the exception in flight or raised ("" for none)
    c_pc,         \* position of the _iter_chain generator
    c_inum,       \* the inode whose chain is walked
    num_extents,  \* _iter_chain's local num_extents
    xblk_num,     \* _iter_chain's local xblk_num
    c_xblk,       \* _iter_chain's local xblk (the parsed overflow block)
    c_i,          \* _iter_chain's local i
    consumer,     \* who pulls _iter_chain: "none" | "dataruns" | "iterdir",
                  \* and "returned" | "raised" once dataruns ended
    emitted,      \* the runs the current walk yielded (the list dataruns builds)
    seeks,        \* history: the overflow-block seeks of the current walk
    truncated,    \* history: TRUE once emitted or seeks reached MaxLog entries
    d_pc,         \* position of the iterdir generator
    d_inum,       \* the directory inode iterated
    d_run,        \* iterdir's local (block, size)
    d_i,          \* iterdir's local i
    d_cur,        \* the (name, inode number) pair iterdir is suspended at
    d_consumer,   \* who pulls iterdir: "none" | "listdir" | "get"
    yielded,      \* history: the entries the current iterdir yielded
    ld_state,     \* listdir: "idle" | "running" | "returned" | "raised"
    ld_result,    \* the dict listdir builds
    ld_entries,   \* history: the entries the iterdir of the last listdir yielded
    g_state,      \* get: "idle" | "running" | "returned" | the exception raised
    g_path,       \* the arguments of the outermost get: [kind, str, int, start]
    g_stack,      \* the frames of get, the innermost last
    g_result,     \* << >>, or <<the inode number of the handle get returned>>
    g_links,      \* history: the symlinks get resolved: [link, start, text, state, result]
    g_log,        \* history: the finished outermost calls of get
    fh_pos,       \* the position of the volume's one file object fh
    i_cache,      \* the handles QNX4.inode caches, least recently used first:
                  \* [inum, has, rec], rec being the record the handle's
                  \* cached property `inode` holds once has is TRUE
    i_log,        \* history: the reads of an inode record through a handle
    s_state,      \* INode4.open: "idle" | "opening" | "open" | the exception raised
    s_cur,        \* the stream open returned: [inum, size, runs, pos, reads]
    s_log,        \* history: the streams the caller is done with
    scan_button,      \* state of the Scan button: "normal" | "disabled"
    metadata_button,  \* state of the Extract Metadata button
    found_files,      \* len(self.found_files)
    tree,             \* the number of file items the tree view shows
    threads,          \* the worker threads started, in order of their start
    after_queue,      \* the callbacks given to root.after(0, ...) and not yet run
    faults,           \* per file index, the step of its export that fails ("none" if none)
    metadata_available  \* METADATA_AVAILABLE: whether mutagen could be imported

genVars == <<c_pc, c_inum, num_extents, xblk_num, c_xblk, c_i>>
runVars == <<consumer, emitted, seeks, truncated>>
chainVars == <<genVars, runVars>>
dirVars == <<d_pc, d_inum, d_run, d_i, d_cur, d_consumer, yielded>>
ldVars == <<ld_state, ld_result, ld_entries>>
getVars == <<g_state, g_path, g_stack, g_result, g_links, g_log>>
mountVars == <<fs_state, root>>
inodeVars == <<fh_pos, i_cache, i_log>>
streamVars == <<s_state, s_cur, s_log>>
fsVars == <<vol, mountVars, err, chainVars, dirVars, ldVars, getVars, inodeVars, streamVars>>
guiVars == <<scan_button, metadata_button, found_files, tree, threads, after_queue, faults,
             metadata_available>>
vars == <<fsVars, guiVars>>

SLASH == 47

(***************************************************************************)
(* Python's integer operators                                              *)
(***************************************************************************)
RECURSIVE BitAnd(_, _)
BitAnd(a, b) ==
    IF a = 0 \/ b = 0 THEN 0
    ELSE (IF a % 2 = 1 /\ b % 2 = 1 THEN 1 ELSE 0) + 2 * BitAnd(a \div 2, b \div 2)

(***************************************************************************)
(* The volume accessor.  A slot is one 64-byte directory entry / inode     *)
(* record, given by the fields the driver parses from it:                  *)
(*   fname     the name area (bytes 0..), zero padded                      *)
(*   status    the last byte                                               *)
(*   dl_*      the qnx4_link_info view                                     *)
(*   di_*      the qnx4_inode_entry view                                   *)
(***************************************************************************)
ZeroXtnt == [xtnt_blk |-> 0, xtnt_size |-> 0]
ZeroSlot ==
    [fname |-> << >>, status |-> 0,
     dl_inode_blk |-> 0, dl_inode_ndx |-> 0, dl_lfn_blk |-> 0,
     di_mode |-> 0, di_size |-> 0, di_num_xtnts |-> 0,
     di_first_xtnt |-> ZeroXtnt, di_xblk |-> 0]
ZeroXblk == [xblk_next_xblk |-> 0, xblk_num_xtnts |-> 0, xblk_xtnts |-> << >>]
ZeroLfn == [lfn_name |-> << >>]

\* the n bytes of a name area, zero padded
PadRead(bytes, n) == [k \in 1..n |-> IF k <= Len(bytes) THEN bytes[k] ELSE 0]

\* how many of the n bytes asked for at offset off a read returns
ReadLen_Full(v, off, n) == n

ReadLen(v, off, n) ==
    IF off + n <= v.size THEN n
    ELSE IF off >= v.size THEN 0 ELSE v.size - off

SlotAt(v, blk, ndx) ==
    IF <<blk, ndx>> \in DOMAIN v.slots THEN v.slots[<<blk, ndx>>] ELSE ZeroSlot

\* the slot a 64-byte read at byte offset off returns
SlotAtOffset(v, off) ==
    SlotAt(v, off \div QNX4_BLOCK_SIZE, (off % QNX4_BLOCK_SIZE) \div QNX4_DIR_ENTRY_SIZE)

\* the overflow block stored at the 0-based block blk
XblkAt(v, blk) ==
    IF blk \in DOMAIN v.xblks THEN v.xblks[blk] ELSE ZeroXblk

\* the long-filename record stored at the 0-based block blk
LfnAt(v, blk) ==
    IF blk \in DOMAIN v.lfns THEN v.lfns[blk] ELSE ZeroLfn

(***************************************************************************)
(* _is_qnx4: fh.seek(QNX4_BLOCK_SIZE); fh.read(16) == b"/" + b"\x00" * 15  *)
(* The 16 bytes at offset block_size are the name area of slot 0 of        *)
(* block 1.                                                                *)
(***************************************************************************)
ReadMarker(v) ==
    SubSeq(PadRead(SlotAt(v, 1, 0).fname, MARKER_LEN), 1,
           ReadLen(v, QNX4_BLOCK_SIZE, MARKER_LEN))

RootMarker == <<SLASH>> \o [k \in 1..(MARKER_LEN - 1) |-> 0]

_is_qnx4_FirstByteOnly(v) ==
    Len(ReadMarker(v)) >= 1 /\ ReadMarker(v)[1] = SLASH

_is_qnx4(v) == ReadMarker(v) = RootMarker

(***************************************************************************)
(* INode4._read_inode: the record of inode inum, or "EOFError" when the    *)
(* read is short, or "SeekError" when the offset is negative.              *)
(***************************************************************************)
InodeOffset(inum) ==
    ((inum \div QNX4_INODES_PER_BLOCK) * QNX4_BLOCK_SIZE)
        + ((inum % QNX4_INODES_PER_BLOCK) * QNX4_DIR_ENTRY_SIZE)

InodeReadable(v, inum) ==
    /\ InodeOffset(inum) >= 0
    /\ ReadLen(v, InodeOffset(inum), QNX4_DIR_ENTRY_SIZE) = QNX4_DIR_ENTRY_SIZE

_read_inode(v, inum) ==
    SlotAt(v, inum \div QNX4_INODES_PER_BLOCK, inum % QNX4_INODES_PER_BLOCK)

(***************************************************************************)
(* The handles.  QNX4.inode is wrapped in lru_cache: fs.inode(inum) gives  *)
(* the cached handle of inum or makes and caches a new one, dropping the   *)
(* least recently used one when the cache is full.  A handle's property    *)
(* `inode` is a cached_property: _read_inode runs on its first use only.   *)
(* A handle dropped from the cache is modelled as gone, though a reference *)
(* may keep it alive; the record it would hold is then read again.         *)
(***************************************************************************)
\* a history keeps its first MaxLog entries
LogAppend(log, e) == IF Len(log) < MaxLog THEN Append(log, e) ELSE log

NewHandle(inum) == [inum |-> inum, has |-> FALSE, rec |-> ZeroSlot]

CachePos(c, inum) == {k \in 1..Len(c) : c[k].inum = inum}

SeqWithout(c, k) == SubSeq(c, 1, k - 1) \o SubSeq(c, k + 1, Len(c))

\* fs.inode(inum): the cache after the call
lru_cache(c, inum) ==
    IF CachePos(c, inum) # {}
      THEN LET k == CHOOSE j \in CachePos(c, inum) : TRUE
           IN  Append(SeqWithout(c, k), c[k])
      ELSE Append(IF Len(c) >= InodeCacheSize THEN Tail(c) ELSE c, NewHandle(inum))

HandleHas(c, inum) == \E k \in CachePos(c, inum) : c[k].has

HandleRec(c, inum) == c[CHOOSE k \in CachePos(c, inum) : c[k].has].rec

StoreRec(c, inum, rec) ==
    [k \in 1..Len(c) |-> IF c[k].inum = inum THEN [c[k] EXCEPT !.has = TRUE, !.rec = rec]
                                              ELSE c[k]]

\* self.fs.fh.seek((block * block_size) + (index * QNX4_DIR_ENTRY_SIZE)): the
\* position the record is read at
InodeSeek_NoSeek(inum, pos) == pos

InodeSeek(inum, pos) == InodeOffset(inum)

\* handle.inode on the handle of inum in cache c with the file at pos: the
\* record, whether it came from the handle, and what is left behind
HandleInode(c, inum, pos) ==
    IF HandleHas(c, inum)
      THEN [ok |-> TRUE, cached |-> TRUE, off |-> pos, rec |-> HandleRec(c, inum),
            pos |-> pos, cache |-> c]
      ELSE LET off == InodeSeek(inum, pos)
               n == ReadLen(vol, off, QNX4_DIR_ENTRY_SIZE)
           IN  IF n = QNX4_DIR_ENTRY_SIZE
                 THEN [ok |-> TRUE, cached |-> FALSE, off |-> off,
                       rec |-> SlotAtOffset(vol, off), pos |-> off + n,
                       cache |-> StoreRec(c, inum, SlotAtOffset(vol, off))]
                 ELSE [ok |-> FALSE, cached |-> FALSE, off |-> off, rec |-> ZeroSlot,
                       pos |-> off + n, cache |-> c]

\* the step's use of handle.inode
UseInode(inum) ==
    LET h == HandleInode(i_cache, inum, fh_pos)
    IN  /\ fh_pos' = h.pos
        /\ i_cache' = h.cache
        /\ i_log' = LogAppend(i_log, [inum |-> inum, ok |-> h.ok, cached |-> h.cached,
                                       off |-> h.off, rec |-> h.rec, from |-> fh_pos])

(***************************************************************************)
(* QNX4.__init__                                                           *)
(***************************************************************************)
Mount ==
    /\ fs_state = "unmounted"
    /\ IF ~ _is_qnx4(vol)
         THEN /\ fs_state' = "InvalidFilesystemError"
              /\ root' = << >>
         ELSE /\ fs_state' = "mounted"
              /\ root' = <<QNX4_ROOT_INO * QNX4_INODES_PER_BLOCK>>
    /\ fh_pos' = QNX4_BLOCK_SIZE + ReadLen(vol, QNX4_BLOCK_SIZE, MARKER_LEN)
    /\ i_cache' = IF _is_qnx4(vol)
                    THEN lru_cache(i_cache, QNX4_ROOT_INO * QNX4_INODES_PER_BLOCK)
                    ELSE i_cache
    /\ UNCHANGED <<vol, streamVars, guiVars, err, chainVars, dirVars, ldVars, getVars, i_log>>

\* the inode numbers the model reads: the root, slot 0 of block 3 and slot 1
\* of block 4
InodeSample ==
    {QNX4_ROOT_INO * QNX4_INODES_PER_BLOCK, 3 * QNX4_INODES_PER_BLOCK,
     (4 * QNX4_INODES_PER_BLOCK) + 1}

\* fs.inode(inum).inode, between two operations of the driver
InodeRead ==
    /\ fs_state = "mounted"
    /\ g_state # "running"
    /\ ld_state # "running"
    /\ consumer # "dataruns"
    /\ Len(i_log) < MaxReads
    /\ \E inum \in InodeSample :
          LET h == HandleInode(lru_cache(i_cache, inum), inum, fh_pos)
          IN  /\ fh_pos' = h.pos
              /\ i_cache' = h.cache
              /\ i_log' = Append(i_log, [inum |-> inum, ok |-> h.ok, cached |-> h.cached,
                                          off |-> h.off, rec |-> h.rec, from |-> fh_pos])
              /\ err' = IF h.ok THEN err ELSE "EOFError"
    /\ UNCHANGED <<vol, streamVars, guiVars, mountVars, chainVars, dirVars, ldVars, getVars>>

(***************************************************************************)
(* INode4._iter_chain, a generator.  Its steps:                            *)
(*   "start"   read di_num_xtnts; return if 0, else yield the inline run   *)
(*   "inline"  resumed after the inline yield: num_extents -= 1, load      *)
(*             xblk_num                                                    *)
(*   "loop"    the while test; seek to and parse the overflow block        *)
(*   "xtnts"   the for loop over the block's extents, one yield a step,    *)
(*             then xblk_num = xblk.xblk_next_xblk                         *)
(***************************************************************************)

\* yield xtnt.xtnt_blk - 1, xtnt.xtnt_size
RunOf_NoMinusOne(xtnt) == <<xtnt.xtnt_blk, xtnt.xtnt_size>>

RunOf(xtnt) == <<xtnt.xtnt_blk - 1, xtnt.xtnt_size>>

\* num_extents -= 1 after the inline extent
AfterInline_NoDecrement(n) == n

AfterInline(n) == n - 1

\* while num_extents and xblk_num
ChainLoopGuard_NoPtrCheck(n, x) == n # 0

ChainLoopGuard(n, x) == n # 0 /\ x # 0

XblkOffset(x) == (x - 1) * QNX4_BLOCK_SIZE

\* the generator runs while its consumer asks for the next run
ChainMayRun ==
    \/ consumer = "dataruns"
    \/ consumer = "iterdir" /\ d_pc = "chain"

\* a yielded run: dataruns appends it to its list; iterdir starts its loop
\* over the run's slots
Yield(run) ==
    /\ emitted' = LogAppend(emitted, run)
    /\ truncated' = (truncated \/ Len(emitted) >= MaxLog)
    /\ IF consumer = "iterdir"
         THEN d_run' = run /\ d_i' = 0 /\ d_pc' = "slots"
         ELSE UNCHANGED <<d_run, d_i, d_pc>>

NoYield == UNCHANGED <<emitted, truncated, d_run, d_i, d_pc>>

ChainStart ==
    /\ c_pc = "start"
    /\ ChainMayRun
    /\ IF ~ InodeReadable(vol, c_inum)
         THEN /\ c_pc' = "error"
              /\ err' = "EOFError"
              /\ NoYield
              /\ UNCHANGED num_extents
         ELSE LET inode == _read_inode(vol, c_inum) IN
              /\ num_extents' = inode.di_num_xtnts
              /\ UNCHANGED err
              /\ IF inode.di_num_xtnts = 0
                   THEN c_pc' = "done" /\ NoYield
                   ELSE c_pc' = "inline" /\ Yield(RunOf(inode.di_first_xtnt))
    /\ UseInode(c_inum)
    /\ UNCHANGED <<vol, streamVars, guiVars, mountVars, c_inum, xblk_num, c_xblk, c_i, consumer, seeks,
                   d_inum, d_cur, d_consumer, yielded, ldVars, getVars>>

ChainResumeInline ==
    /\ c_pc = "inline"
    /\ ChainMayRun
    /\ num_extents' = AfterInline(num_extents)
    /\ xblk_num' = _read_inode(vol, c_inum).di_xblk
    /\ c_pc' = "loop"
    /\ UNCHANGED <<vol, streamVars, guiVars, inodeVars, mountVars, err, c_inum, c_xblk, c_i, runVars, dirVars, ldVars, getVars>>

ChainLoop ==
    /\ c_pc = "loop"
    /\ ChainMayRun
    /\ IF ChainLoopGuard(num_extents, xblk_num)
         THEN /\ seeks' = LogAppend(seeks, [ptr |-> xblk_num,
                                             off |-> XblkOffset(xblk_num),
                                             yielded |-> Len(emitted),
                                             remaining |-> num_extents])
              /\ truncated' = (truncated \/ Len(seeks) >= MaxLog)
              /\ fh_pos' = IF XblkOffset(xblk_num) < 0 THEN fh_pos
                            ELSE XblkOffset(xblk_num)
                                   + ReadLen(vol, XblkOffset(xblk_num), QNX4_BLOCK_SIZE)
              /\ IF XblkOffset(xblk_num) < 0
                   THEN c_pc' = "error" /\ err' = "SeekError" /\ UNCHANGED <<c_xblk, c_i>>
                   ELSE IF ReadLen(vol, XblkOffset(xblk_num), QNX4_BLOCK_SIZE) < QNX4_BLOCK_SIZE
                   THEN c_pc' = "error" /\ err' = "EOFError" /\ UNCHANGED <<c_xblk, c_i>>
                   ELSE /\ c_xblk' = XblkAt(vol, xblk_num - 1)
                        /\ c_i' = 0
                        /\ c_pc' = "xtnts"
                        /\ UNCHANGED err
         ELSE /\ c_pc' = "done"
              /\ UNCHANGED <<seeks, truncated, c_xblk, c_i, err, fh_pos>>
    /\ UNCHANGED <<vol, streamVars, guiVars, mountVars, c_inum, num_extents, xblk_num, consumer, emitted,
                   dirVars, ldVars, getVars, i_cache, i_log>>

ChainXtnt ==
    /\ c_pc = "xtnts"
    /\ ChainMayRun
    /\ IF c_i < c_xblk.xblk_num_xtnts
         THEN /\ Yield(RunOf(c_xblk.xblk_xtnts[c_i + 1]))
              /\ c_i' = c_i + 1
              /\ UNCHANGED <<c_pc, xblk_num>>
         ELSE /\ xblk_num' = c_xblk.xblk_next_xblk
              /\ c_pc' = "loop"
              /\ NoYield
              /\ UNCHANGED c_i
    /\ UNCHANGED <<vol, streamVars, guiVars, inodeVars, mountVars, err, c_inum, num_extents, c_xblk, consumer, seeks,
                   d_inum, d_cur, d_consumer, yielded, ldVars, getVars>>

(***************************************************************************)
(* INode4.dataruns: list(self._iter_chain())                               *)
(***************************************************************************)
\* the fresh generator a call of _iter_chain on inode inum returns
NewChain(inum) ==
    /\ c_pc' = "start"
    /\ c_inum' = inum
    /\ emitted' = << >>
    /\ seeks' = << >>
    /\ truncated' = FALSE
    /\ UNCHANGED <<num_extents, xblk_num, c_xblk, c_i>>

dataruns ==
    /\ fs_state = "mounted"
    /\ g_state = "idle"
    /\ consumer = "none"
    /\ d_consumer = "none"
    /\ c_pc = "idle"
    /\ consumer' = "dataruns"
    /\ NewChain(root[1])
    /\ UNCHANGED <<vol, streamVars, guiVars, inodeVars, mountVars, err, dirVars, ldVars, getVars>>

\* the list is complete once the generator returned; an exception of the
\* generator leaves dataruns
DatarunsReturn ==
    /\ consumer = "dataruns"
    /\ c_pc \in {"done", "error"}
    /\ consumer' = IF c_pc = "done" THEN "returned" ELSE "raised"
    /\ c_pc' = "idle"
    /\ UNCHANGED <<vol, streamVars, guiVars, inodeVars, mountVars, err, c_inum, num_extents, xblk_num, c_xblk, c_i,
                   emitted, seeks, truncated, dirVars, ldVars, getVars>>

(***************************************************************************)
(* The predicates of an inode handle                                       *)
(***************************************************************************)
\* INode4.type: stat.S_IFMT(self.mode)
TypeOf(inode) == BitAnd(inode.di_mode, S_IFMT_MASK)

is_dir(inode) == TypeOf(inode) = S_IFDIR

is_symlink_Never(inode) == FALSE

is_symlink(inode) ==
    TypeOf(inode) = S_IFLNK \/ BitAnd(inode.status, QNX4_FILE_LINK) # 0

(***************************************************************************)
(* Names: name.split(b"\x00")[0].decode(errors="surrogateescape")          *)
(***************************************************************************)
\* bytes.split(b"\x00")[0]: the bytes before the first NUL
NulSplit(bytes) ==
    LET zs == {k \in 1..Len(bytes) : bytes[k] = 0}
    IN  IF zs = {} THEN bytes
        ELSE SubSeq(bytes, 1, (CHOOSE k \in zs : \A j \in zs : k <= j) - 1)

\* decode(errors="surrogateescape") of ASCII bytes and of lone bytes >= 128:
\* the former decode to their own code point, the latter to U+DC00 + byte
Decode(bytes) ==
    [k \in 1..Len(bytes) |-> IF bytes[k] < 128 THEN bytes[k] ELSE 56320 + bytes[k]]

(***************************************************************************)
(* INode4.iterdir, a generator over _iter_chain.  Its positions:           *)
(*   "begin"    created, not yet run                                       *)
(*   "chain"    asking _iter_chain for the next (block, size)              *)
(*   "slots"    in the loop over the slots of the run                      *)
(*   "yielded"  suspended at its yield, d_cur being the pair yielded       *)
(*   "done" / "error"  returned / left by an exception (err)               *)
(***************************************************************************)
\* if not buf[0]: continue
FirstByteUnused_Never(buf) == FALSE

FirstByteUnused(buf) == PadRead(buf.fname, 1)[1] = 0

\* if not status & (QNX4_FILE_USED | QNX4_FILE_LINK): continue
Unclassified_UsedOnly(status) == BitAnd(status, QNX4_FILE_USED) = 0

Unclassified(status) == BitAnd(status, QNX4_FILE_USED + QNX4_FILE_LINK) = 0

\* if status & QNX4_FILE_LINK
IsLinkEntry(status) == BitAnd(status, QNX4_FILE_LINK) # 0

\* ((link_info.dl_inode_blk - 1) * QNX4_INODES_PER_BLOCK) + link_info.dl_inode_ndx
LinkInum_NoMinusOne(buf) ==
    (buf.dl_inode_blk * QNX4_INODES_PER_BLOCK) + buf.dl_inode_ndx

LinkInum(buf) ==
    ((buf.dl_inode_blk - 1) * QNX4_INODES_PER_BLOCK) + buf.dl_inode_ndx

\* (block * QNX4_INODES_PER_BLOCK) + i
PlainInum_SlotInBlock(block, i) ==
    (block * QNX4_INODES_PER_BLOCK) + (i % QNX4_INODES_PER_BLOCK)

PlainInum(block, i) == (block * QNX4_INODES_PER_BLOCK) + i

SlotOffset(block, i) == (block * QNX4_BLOCK_SIZE) + (i * QNX4_DIR_ENTRY_SIZE)

\* fh.seek(...) before the read of slot i: where the read takes place, the
\* file being found at pos
SlotSeek_NoSeek(block, i, pos) == pos

SlotSeek(block, i, pos) == SlotOffset(block, i)

LfnOffset(buf) == (buf.dl_lfn_blk - 1) * QNX4_BLOCK_SIZE

\* One pass of the loop body for slot i of the run at block, the file being
\* found at pos: what it ends
\* with ("raise", "continue" or "yield") and the exception or pair.
SlotStep(v, block, i, pos) ==
    LET off == SlotSeek(block, i, pos)
        buf == SlotAtOffset(v, off)
        res(kind, e, name, inum) == [kind |-> kind, err |-> e, name |-> name, inum |-> inum]
    IN  IF off < 0 THEN res("raise", "SeekError", << >>, 0)
        ELSE IF ReadLen(v, off, QNX4_DIR_ENTRY_SIZE) # QNX4_DIR_ENTRY_SIZE
          THEN res("raise", "Error", << >>, 0)
        ELSE IF FirstByteUnused(buf) THEN res("continue", "", << >>, 0)
        ELSE IF Unclassified(buf.status) THEN res("continue", "", << >>, 0)
        ELSE IF IsLinkEntry(buf.status)
          THEN IF buf.dl_lfn_blk # 0
                 THEN IF ReadLen(v, LfnOffset(buf), QNX4_BLOCK_SIZE) < QNX4_BLOCK_SIZE
                        THEN res("raise", "EOFError", << >>, 0)
                        ELSE res("yield", "",
                                 Decode(NulSplit(LfnAt(v, buf.dl_lfn_blk - 1).lfn_name)),
                                 LinkInum(buf))
                 ELSE res("yield", "",
                          Decode(NulSplit(PadRead(buf.fname, QNX4_NAME_MAX))),
                          LinkInum(buf))
        ELSE res("yield", "",
                 Decode(NulSplit(PadRead(buf.fname, QNX4_SHORT_NAME_MAX))),
                 PlainInum(block, i))

\* where the pass of the loop body for slot i leaves the file, found at pos
SlotPos(v, block, i, pos) ==
    LET off == SlotSeek(block, i, pos)
        buf == SlotAtOffset(v, off)
    IN  IF off < 0 THEN pos
        ELSE IF ReadLen(v, off, QNX4_DIR_ENTRY_SIZE) # QNX4_DIR_ENTRY_SIZE
          THEN off + ReadLen(v, off, QNX4_DIR_ENTRY_SIZE)
        ELSE IF SlotStep(v, block, i, pos).kind # "continue" /\ IsLinkEntry(buf.status)
                /\ buf.dl_lfn_blk # 0
          THEN LfnOffset(buf) + ReadLen(v, LfnOffset(buf), QNX4_BLOCK_SIZE)
        ELSE off + QNX4_DIR_ENTRY_SIZE

\* the fresh generator a call of iterdir on inode inum returns to who
NewIterdir(inum, who) ==
    /\ d_pc' = "begin"
    /\ d_inum' = inum
    /\ d_consumer' = who
    /\ yielded' = << >>
    /\ UNCHANGED <<d_run, d_i, d_cur>>

\* if not self.is_dir(): raise NotADirectoryError; then the first request
\* to self._iter_chain()
IterdirBegin ==
    /\ d_pc = "begin"
    /\ IF ~ InodeReadable(vol, d_inum)
         THEN /\ d_pc' = "error" /\ err' = "EOFError"
              /\ UNCHANGED <<genVars, runVars>>
         ELSE IF ~ is_dir(_read_inode(vol, d_inum))
         THEN /\ d_pc' = "error" /\ err' = "NotADirectoryError"
              /\ UNCHANGED <<genVars, runVars>>
         ELSE /\ d_pc' = "chain"
              /\ consumer' = "iterdir"
              /\ NewChain(d_inum)
              /\ UNCHANGED err
    /\ UseInode(d_inum)
    /\ UNCHANGED <<vol, streamVars, guiVars, mountVars, d_inum, d_run, d_i, d_cur, d_consumer, yielded, ldVars, getVars>>

IterSlot ==
    /\ d_pc = "slots"
    /\ IF d_i < QNX4_INODES_PER_BLOCK * d_run[2]
         THEN LET r == SlotStep(vol, d_run[1], d_i, fh_pos) IN
              IF r.kind = "raise"
                THEN /\ d_pc' = "error" /\ err' = r.err
                     /\ UNCHANGED <<d_i, d_cur, yielded>>
              ELSE IF r.kind = "continue"
                THEN /\ d_i' = d_i + 1
                     /\ UNCHANGED <<d_pc, err, d_cur, yielded>>
              ELSE /\ d_cur' = <<r.name, r.inum>>
                   /\ yielded' = LogAppend(yielded, [name |-> r.name, inum |-> r.inum,
                                                     block |-> d_run[1], slot |-> d_i])
                   /\ d_i' = d_i + 1
                   /\ d_pc' = "yielded"
                   /\ UNCHANGED err
         ELSE /\ d_pc' = "chain"
              /\ UNCHANGED <<err, d_i, d_cur, yielded>>
    /\ IF d_i < QNX4_INODES_PER_BLOCK * d_run[2]
         THEN /\ fh_pos' = SlotPos(vol, d_run[1], d_i, fh_pos)
              /\ i_cache' = IF SlotStep(vol, d_run[1], d_i, fh_pos).kind = "yield"
                              THEN lru_cache(i_cache, SlotStep(vol, d_run[1], d_i, fh_pos).inum)
                              ELSE i_cache
         ELSE UNCHANGED <<fh_pos, i_cache>>
    /\ UNCHANGED <<vol, streamVars, guiVars, mountVars, chainVars, d_inum, d_run, d_consumer, ldVars, getVars,
                   i_log>>

\* _iter_chain returned or raised: so does iterdir
IterdirChainEnd ==
    /\ consumer = "iterdir"
    /\ d_pc = "chain"
    /\ c_pc \in {"done", "error"}
    /\ d_pc' = c_pc
    /\ c_pc' = "idle"
    /\ consumer' = "none"
    /\ UNCHANGED <<vol, streamVars, guiVars, inodeVars, mountVars, err, c_inum, num_extents, xblk_num, c_xblk, c_i,
                   emitted, seeks, truncated, d_inum, d_run, d_i, d_cur, d_consumer,
                   yielded, ldVars, getVars>>

(***************************************************************************)
(* INode4.listdir: dict(self.iterdir())                                    *)
(***************************************************************************)
\* d[name] = inode
DictSet_KeepFirst(d, k, x) == [n \in DOMAIN d \cup {k} |-> IF n \in DOMAIN d THEN d[n] ELSE x]

DictSet(d, k, x) == [n \in DOMAIN d \cup {k} |-> IF n = k THEN x ELSE d[n]]

listdir ==
    /\ fs_state = "mounted"
    /\ ld_state = "idle"
    /\ g_state = "idle"
    /\ consumer = "none"
    /\ d_consumer = "none"
    /\ ld_state' = "running"
    /\ ld_result' = [x \in {} |-> 0]
    /\ NewIterdir(root[1], "listdir")
    /\ UNCHANGED <<vol, streamVars, guiVars, inodeVars, mountVars, err, chainVars, ld_entries, getVars>>

ListdirTake ==
    /\ d_consumer = "listdir"
    /\ d_pc = "yielded"
    /\ ld_result' = DictSet(ld_result, d_cur[1], d_cur[2])
    /\ d_pc' = "slots"
    /\ UNCHANGED <<vol, streamVars, guiVars, inodeVars, mountVars, err, chainVars, d_inum, d_run, d_i, d_cur,
                   d_consumer, yielded, ld_state, ld_entries, getVars>>

ListdirReturn ==
    /\ d_consumer = "listdir"
    /\ d_pc \in {"done", "error"}
    /\ ld_state' = IF d_pc = "done" THEN "returned" ELSE "raised"
    /\ ld_entries' = yielded
    /\ d_pc' = "idle"
    /\ d_consumer' = "none"
    /\ c_pc' = "idle"
    /\ consumer' = "none"
    /\ UNCHANGED <<vol, streamVars, guiVars, inodeVars, mountVars, err, c_inum, num_extents, xblk_num, c_xblk, c_i,
                   emitted, seeks, truncated, d_inum, d_run, d_i, d_cur,
                   yielded, ld_result, getVars>>

(***************************************************************************)
(* A caller's own loop `for name, entry in root.iterdir(): ...`, whose     *)
(* body may read through the filesystem before it asks for the next pair.  *)
(***************************************************************************)
iterdir ==
    /\ fs_state = "mounted"
    /\ ld_state \in {"returned", "raised"}
    /\ g_state = "idle"
    /\ consumer = "none"
    /\ d_consumer = "none"
    /\ NewIterdir(root[1], "caller")
    /\ UNCHANGED <<vol, streamVars, guiVars, inodeVars, mountVars, err, chainVars, ldVars, getVars>>

\* the loop body, with the generators suspended: entry.inode of the pair
\* just yielded, or fs.inode(inum).inode of another inode; an exception of
\* the read is caught in the body
EntryRead ==
    /\ d_consumer = "caller"
    /\ d_pc = "yielded"
    /\ Len(i_log) < MaxLog
    /\ \E inum \in InodeSample \cup {d_cur[2]} :
          LET h == HandleInode(lru_cache(i_cache, inum), inum, fh_pos)
          IN  /\ fh_pos' = h.pos
              /\ i_cache' = h.cache
              /\ i_log' = Append(i_log, [inum |-> inum, ok |-> h.ok, cached |-> h.cached,
                                          off |-> h.off, rec |-> h.rec, from |-> fh_pos])
    /\ UNCHANGED <<vol, streamVars, guiVars, mountVars, err, chainVars, dirVars, ldVars, getVars>>

\* the loop asks for the next pair
CallerNext ==
    /\ d_consumer = "caller"
    /\ d_pc = "yielded"
    /\ d_pc' = "slots"
    /\ UNCHANGED <<vol, streamVars, guiVars, inodeVars, mountVars, err, chainVars, d_inum, d_run, d_i, d_cur,
                   d_consumer, yielded, ldVars, getVars>>

\* the generator returned or raised: the loop is left
CallerEnd ==
    /\ d_consumer = "caller"
    /\ d_pc \in {"done", "error"}
    /\ d_pc' = "idle"
    /\ d_consumer' = "none"
    /\ c_pc' = "idle"
    /\ consumer' = "none"
    /\ UNCHANGED <<vol, streamVars, guiVars, inodeVars, mountVars, err, c_inum, num_extents, xblk_num, c_xblk, c_i,
                   emitted, seeks, truncated, d_inum, d_run, d_i, d_cur, yielded, ldVars, getVars>>

(***************************************************************************)
(* INode4.open / INode4.link:                                              *)
(*   RunlistStream(fh, self.dataruns(), self.size, block_size).read()      *)
(* The stream maps its logical bytes run by run to the volume; a stream    *)
(* whose runs are shorter than its size ends with its runs.                *)
(***************************************************************************)
DataByteAt(v, off) ==
    LET blk == off \div QNX4_BLOCK_SIZE
        idx == off % QNX4_BLOCK_SIZE
    IN  IF blk \in DOMAIN v.data /\ idx < Len(v.data[blk]) THEN v.data[blk][idx + 1] ELSE 0

RECURSIVE RunsBytes(_)
RunsBytes(runs) ==
    IF runs = << >> THEN 0 ELSE (Head(runs)[2] * QNX4_BLOCK_SIZE) + RunsBytes(Tail(runs))

\* the volume offset of logical byte o of the runs
RECURSIVE PhysOffset(_, _)
PhysOffset(runs, o) ==
    IF o < Head(runs)[2] * QNX4_BLOCK_SIZE
      THEN (Head(runs)[1] * QNX4_BLOCK_SIZE) + o
      ELSE PhysOffset(Tail(runs), o - (Head(runs)[2] * QNX4_BLOCK_SIZE))

StreamRead(v, runs, size) ==
    LET n == IF size <= RunsBytes(runs) THEN size ELSE RunsBytes(runs)
    IN  [o \in 1..n |-> DataByteAt(v, PhysOffset(runs, o - 1))]

\* where reading the whole stream leaves the file, found at pos
StreamEndPos(v, runs, size, pos) ==
    IF Len(StreamRead(v, runs, size)) = 0 THEN pos
    ELSE PhysOffset(runs, Len(StreamRead(v, runs, size)) - 1) + 1

\* stream.read(n) at position pos: the number of bytes asked for, n = -1
\* meaning all that is left of the declared size
StreamWant(size, pos, n) ==
    IF n < 0 \/ n > size - pos THEN size - pos ELSE n

\* the bytes stream.read(n) returns at position pos: those of the bytes asked
\* for that the runs hold
StreamBytes(v, runs, size, pos, n) ==
    LET all == StreamRead(v, runs, size)
        hi  == pos + StreamWant(size, pos, n)
    IN  IF pos >= Len(all) THEN << >>
        ELSE SubSeq(all, pos + 1, IF hi <= Len(all) THEN hi ELSE Len(all))

NoStream == [inum |-> 0, size |-> 0, runs |-> << >>, pos |-> 0, reads |-> << >>]

\* node.open(), of the inode of slot 0 of block 3: self.dataruns() is
\* evaluated first
open ==
    /\ fs_state = "mounted"
    /\ s_state = "idle"
    /\ g_state = "idle"
    /\ consumer = "none"
    /\ d_consumer = "none"
    /\ Len(s_log) < MaxOpens
    /\ \E inum \in {PlainInum(3, 0)} :
          /\ NewChain(inum)
          /\ s_cur' = [NoStream EXCEPT !.inum = inum]
    /\ consumer' = "dataruns"
    /\ s_state' = "opening"
    /\ UNCHANGED <<vol, guiVars, inodeVars, mountVars, err, dirVars, ldVars, getVars, s_log>>

\* RunlistStream(self.fs.fh, self.dataruns(), self.size, self.fs.block_size)
OpenReturn ==
    /\ s_state = "opening"
    /\ consumer \in {"returned", "raised"}
    /\ consumer' = "none"
    /\ IF consumer = "raised"
         THEN s_state' = err /\ UNCHANGED s_cur
         ELSE /\ s_state' = "open"
              /\ s_cur' = [s_cur EXCEPT !.size = _read_inode(vol, s_cur.inum).di_size,
                                        !.runs = emitted]
    /\ UNCHANGED <<vol, guiVars, inodeVars, mountVars, err, genVars, emitted, seeks, truncated,
                   dirVars, ldVars, getVars, s_log>>

\* stream.read(n), with n = -1 (all that is left) or half the size
StreamReadN ==
    /\ s_state = "open"
    /\ Len(s_cur.reads) < MaxStreamReads
    /\ \E n \in {-1, s_cur.size \div 2} :
          LET data == StreamBytes(vol, s_cur.runs, s_cur.size, s_cur.pos, n)
          IN  /\ s_cur' = [s_cur EXCEPT
                             !.pos = s_cur.pos + StreamWant(s_cur.size, s_cur.pos, n),
                             !.reads = Append(s_cur.reads,
                                              [n |-> n, at |-> s_cur.pos, data |-> data])]
              /\ fh_pos' = IF data = << >> THEN fh_pos
                            ELSE PhysOffset(s_cur.runs, s_cur.pos + Len(data) - 1) + 1
    /\ UNCHANGED <<vol, guiVars, mountVars, err, chainVars, dirVars, ldVars, getVars, i_cache, i_log,
                   s_state, s_log>>

\* the caller is done with the stream, or with the exception open raised
StreamClose ==
    /\ s_state \notin {"idle", "opening"}
    /\ Len(s_log) < MaxOpens
    /\ s_log' = Append(s_log, [s_cur EXCEPT !.pos = IF s_state = "open" THEN s_cur.pos ELSE -1])
    /\ s_state' = "idle"
    /\ s_cur' = NoStream
    /\ UNCHANGED <<vol, guiVars, inodeVars, mountVars, err, chainVars, dirVars, ldVars, getVars>>

(***************************************************************************)
(* QNX4.get(path, node).  A frame holds the locals parts, the index k of   *)
(* the part the for loop is at, node and prev_node (<< >> for None), and   *)
(* its position:                                                           *)
(*   "for"     at the head of `for part in parts`                          *)
(*   "while"   at the test of `while node.is_symlink()`                    *)
(*   "link"    reading node.link (dataruns of the symlink is running)      *)
(*   "call"    waiting for self.get(node.link, prev_node)                  *)
(*   "lookup"  in `for name, entry in node.iterdir()`                      *)
(***************************************************************************)
\* path.split("/")
RECURSIVE SplitSlash(_)
SplitSlash(path) ==
    LET idx == {k \in 1..Len(path) : path[k] = SLASH}
    IN  IF idx = {} THEN <<path>>
        ELSE LET m == CHOOSE k \in idx : \A j \in idx : k <= j
             IN  <<SubSeq(path, 1, m - 1)>> \o SplitSlash(SubSeq(path, m + 1, Len(path)))

\* if name == part
NameMatches_Always(name, part) == TRUE

NameMatches(name, part) == name = part

\* lk is the position in g_links of the symlink the call resolves, 0 for
\* the outermost call
NewFrame(path, node, lk) ==
    [parts |-> SplitSlash(path), k |-> 1, node |-> node, prev |-> << >>, pc |-> "for",
     lk |-> lk]

\* the entry of g_links at position lk has come to state st with result res
LinkDone(lk, st, res) ==
    IF lk \in 1..Len(g_links)
      THEN [g_links EXCEPT ![lk] = [@ EXCEPT !.state = st, !.result = res]]
      ELSE g_links

Top == g_stack[Len(g_stack)]
SetTop(f) == [g_stack EXCEPT ![Len(g_stack)] = f]

\* an exception leaves every frame of get
GetRaise(e) ==
    /\ g_state' = e
    /\ g_stack' = << >>
    /\ g_links' = [k \in 1..Len(g_links) |->
                     IF g_links[k].state = "running"
                       THEN [g_links[k] EXCEPT !.state = e] ELSE g_links[k]]
    /\ UNCHANGED <<g_path, g_result, g_log>>

\* the paths the model calls get with: the names the listing of the root
\* gave, and paths that lead through a symlink
GetExtraPaths == {<<115, SLASH, 98>>, <<116, SLASH, 120>>}
GetPaths == {ld_entries[k].name : k \in 1..Len(ld_entries)} \cup GetExtraPaths

\* get(path) with a str path; node = node or self.root
GetCall ==
    /\ fs_state = "mounted"
    /\ g_state = "idle"
    /\ ld_state \in {"returned", "raised"}
    /\ consumer = "none"
    /\ d_consumer = "none"
    /\ \E path \in GetPaths :
          /\ g_path' = [kind |-> "str", str |-> path, int |-> 0, start |-> root[1]]
          /\ g_stack' = <<NewFrame(path, root[1], 0)>>
    /\ g_state' = "running"
    /\ g_result' = << >>
    /\ UNCHANGED <<vol, streamVars, guiVars, inodeVars, mountVars, err, chainVars, dirVars, ldVars, g_links, g_log>>

\* the (path, node) arguments the model calls get(path, node) with: "d/l/b",
\* "/a/b", "/a" and "s/x" from the root, and "x" from the inode of slot 2 of
\* block 3
LinkRootInum == QNX4_ROOT_INO * QNX4_INODES_PER_BLOCK
LinkCalls ==
    { <<(<<100, SLASH, 108, SLASH, 98>>), LinkRootInum>>,
      <<(<<SLASH, 97, SLASH, 98>>), LinkRootInum>>,
      <<(<<SLASH, 97>>), LinkRootInum>>,
      <<(<<115, SLASH, 120>>), LinkRootInum>>,
      <<(<<120>>), PlainInum(3, 2)>> }

\* get(path, node) with a str path and a node to resolve from
GetCallNode ==
    /\ fs_state = "mounted"
    /\ g_state = "idle"
    /\ ld_state # "running"
    /\ consumer = "none"
    /\ d_consumer = "none"
    /\ Len(g_log) < MaxCalls
    /\ \E call \in LinkCalls :
          /\ g_path' = [kind |-> "str", str |-> call[1], int |-> 0, start |-> call[2]]
          /\ g_stack' = <<NewFrame(call[1], call[2], 0)>>
    /\ g_state' = "running"
    /\ g_result' = << >>
    /\ UNCHANGED <<vol, streamVars, guiVars, inodeVars, mountVars, err, chainVars, dirVars, ldVars, g_links, g_log>>

\* get is left, by return or by an exception: its caller goes on
GetDone ==
    /\ g_state \notin {"idle", "running"}
    /\ Len(g_log) < MaxCalls
    /\ g_log' = Append(g_log, [path |-> g_path.str, start |-> g_path.start,
                               state |-> g_state, result |-> g_result,
                               links |-> g_links])
    /\ g_state' = "idle"
    /\ g_path' = [kind |-> "none", str |-> << >>, int |-> 0, start |-> 0]
    /\ g_result' = << >>
    /\ g_links' = << >>
    /\ UNCHANGED <<vol, streamVars, guiVars, inodeVars, mountVars, err, chainVars, dirVars, ldVars, g_stack>>

\* get(path) with an int path: return self.inode(path)
GetInum ==
    /\ fs_state = "mounted"
    /\ g_state = "idle"
    /\ ld_state \in {"returned", "raised"}
    /\ d_consumer = "none"
    /\ \E inum \in {ld_entries[k].inum : k \in 1..Len(ld_entries)} :
          /\ g_path' = [kind |-> "int", str |-> << >>, int |-> inum, start |-> root[1]]
          /\ g_result' = <<inum>>
    /\ g_state' = "returned"
    /\ UNCHANGED <<vol, streamVars, guiVars, inodeVars, mountVars, err, chainVars, dirVars, ldVars, g_stack, g_links, g_log>>

\* the head of the for loop: the next part, `continue` on an empty one, or
\* `return node` to the caller
GetFor ==
    /\ g_state = "running"
    /\ Top.pc = "for"
    /\ IF Top.k > Len(Top.parts)
         THEN IF Len(g_stack) = 1
                THEN /\ g_state' = "returned"
                     /\ g_result' = <<Top.node>>
                     /\ g_stack' = << >>
                     /\ UNCHANGED g_links
                ELSE LET caller == g_stack[Len(g_stack) - 1]
                     IN  /\ g_stack' = [SubSeq(g_stack, 1, Len(g_stack) - 1)
                                          EXCEPT ![Len(g_stack) - 1] =
                                            [caller EXCEPT !.prev = <<caller.node>>,
                                                           !.node = Top.node,
                                                           !.pc = "while"]]
                         /\ g_links' = LinkDone(Top.lk, "returned", <<Top.node>>)
                         /\ UNCHANGED <<g_state, g_result>>
         ELSE /\ IF Top.parts[Top.k] = << >>
                   THEN g_stack' = SetTop([Top EXCEPT !.k = Top.k + 1])
                   ELSE g_stack' = SetTop([Top EXCEPT !.pc = "while"])
              /\ UNCHANGED <<g_state, g_result, g_links>>
    /\ UNCHANGED <<vol, streamVars, guiVars, inodeVars, mountVars, err, chainVars, dirVars, ldVars, g_path, g_log>>

\* while node.is_symlink(): ... node.link ...; else node.iterdir()
GetWhile ==
    /\ g_state = "running"
    /\ Top.pc = "while"
    /\ IF ~ InodeReadable(vol, Top.node)
         THEN /\ GetRaise("EOFError")
              /\ err' = "EOFError"
              /\ UNCHANGED <<chainVars, dirVars>>
         ELSE IF is_symlink(_read_inode(vol, Top.node))
         THEN IF Top.prev = << >>
                THEN /\ GetRaise("FileNotFoundError")
                     /\ err' = "FileNotFoundError"
                     /\ UNCHANGED <<chainVars, dirVars>>
                ELSE /\ consumer' = "dataruns"
                     /\ NewChain(Top.node)
                     /\ g_stack' = SetTop([Top EXCEPT !.pc = "link"])
                     /\ UNCHANGED <<err, dirVars, g_state, g_path, g_result, g_links, g_log>>
         ELSE /\ NewIterdir(Top.node, "get")
              /\ g_stack' = SetTop([Top EXCEPT !.pc = "lookup"])
              /\ UNCHANGED <<err, chainVars, g_state, g_path, g_result, g_links, g_log>>
    /\ UseInode(Top.node)
    /\ UNCHANGED <<vol, streamVars, guiVars, mountVars, ldVars>>

\* node.link is read: prev_node, node = node, self.get(node.link, prev_node)
GetLink ==
    /\ g_state = "running"
    /\ Top.pc = "link"
    /\ consumer \in {"returned", "raised"}
    /\ consumer' = "none"
    /\ IF consumer = "raised"
         THEN GetRaise(err)
         ELSE IF Len(g_stack) >= MaxDepth
         THEN GetRaise("RecursionError")
         ELSE LET text == Decode(StreamRead(vol, emitted,
                                            _read_inode(vol, Top.node).di_size))
              IN  /\ g_stack' = Append(SetTop([Top EXCEPT !.pc = "call"]),
                                       NewFrame(text, Top.prev[1],
                                                IF Len(g_links) < MaxLog
                                                  THEN Len(g_links) + 1 ELSE 0))
                  /\ g_links' = LogAppend(g_links, [link |-> Top.node, start |-> Top.prev[1],
                                                     text |-> text, state |-> "running",
                                                     result |-> << >>])
                  /\ UNCHANGED <<g_state, g_path, g_result, g_log>>
    /\ fh_pos' = IF consumer = "raised" THEN fh_pos
                  ELSE StreamEndPos(vol, emitted, _read_inode(vol, Top.node).di_size, fh_pos)
    /\ UNCHANGED <<vol, streamVars, guiVars, mountVars, err, genVars, emitted, seeks, truncated, dirVars, ldVars,
                   i_cache, i_log>>

\* one entry of node.iterdir(): on a match prev_node, node = node, entry and
\* break, which drops the generators
GetTake ==
    /\ g_state = "running"
    /\ Top.pc = "lookup"
    /\ d_consumer = "get"
    /\ d_pc = "yielded"
    /\ IF NameMatches(d_cur[1], Top.parts[Top.k])
         THEN /\ g_stack' = SetTop([Top EXCEPT !.prev = <<Top.node>>,
                                               !.node = d_cur[2],
                                               !.k = Top.k + 1,
                                               !.pc = "for"])
              /\ d_pc' = "idle"
              /\ d_consumer' = "none"
              /\ c_pc' = "idle"
              /\ consumer' = "none"
         ELSE /\ d_pc' = "slots"
              /\ UNCHANGED <<g_stack, d_consumer, c_pc, consumer>>
    /\ UNCHANGED <<vol, streamVars, guiVars, inodeVars, mountVars, err, c_inum, num_extents, xblk_num, c_xblk, c_i,
                   emitted, seeks, truncated, d_inum, d_run, d_i, d_cur, yielded,
                   ldVars, g_state, g_path, g_result, g_links, g_log>>

\* the for loop's else: raise FileNotFoundError; an exception of iterdir
\* leaves get as it is
GetLookupEnd ==
    /\ g_state = "running"
    /\ Top.pc = "lookup"
    /\ d_consumer = "get"
    /\ d_pc \in {"done", "error"}
    /\ IF d_pc = "done"
         THEN GetRaise("FileNotFoundError") /\ err' = "FileNotFoundError"
         ELSE GetRaise(err) /\ UNCHANGED err
    /\ d_pc' = "idle"
    /\ d_consumer' = "none"
    /\ c_pc' = "idle"
    /\ consumer' = "none"
    /\ UNCHANGED <<vol, streamVars, guiVars, inodeVars, mountVars, c_inum, num_extents, xblk_num, c_xblk, c_i,
                   emitted, seeks, truncated, d_inum, d_run, d_i, d_cur, yielded, ldVars>>

(***************************************************************************)
(* The front end (mygig_recovery_v3.py): the button handlers run on the Tk  *)
(* main thread, start_scan, start_metadata_extraction, extract_selected    *)
(* and extract_all each start a worker thread, and a worker hands its GUI   *)
(* updates to the main thread with root.after(0, ...).                     *)
(***************************************************************************)
\* threading.Thread(target=..., args=...).start()
StartThread(kind, indices, flat) ==
    threads' = Append(threads, [kind |-> kind, state |-> "running", indices |-> indices,
                                flat |-> flat, pos |-> 1, extracted |-> 0, failed |-> 0,
                                skipped |-> 0])

Running(kind) == {k \in 1..Len(threads) : threads[k].kind = kind /\ threads[k].state = "running"}

\* the Scan button is pressed (it can be while its state is normal)
start_scan ==
    /\ scan_button = "normal"
    /\ Len(threads) < MaxThreads
    /\ tree' = 0
    /\ found_files' = 0
    /\ scan_button' = "disabled"
    /\ StartThread("scan", << >>, FALSE)
    /\ UNCHANGED <<fsVars, metadata_button, after_queue, faults, metadata_available>>

\* the scan thread comes to its end, having found files or not
scan_worker ==
    \E k \in Running("scan") : \E n \in {0, MaxFiles} :
        /\ found_files' = n
        /\ threads' = [threads EXCEPT ![k].state = "completed"]
        /\ after_queue' = after_queue \o <<"populate_tree", "scan_normal">>
                            \o (IF metadata_available THEN <<"metadata_normal">> ELSE << >>)
        /\ UNCHANGED <<fsVars, scan_button, metadata_button, tree, faults, metadata_available>>

\* the Extract Metadata button is pressed
start_metadata_extraction ==
    /\ metadata_available
    /\ metadata_button = "normal"
    /\ found_files > 0
    /\ Len(threads) < MaxThreads
    /\ metadata_button' = "disabled"
    /\ scan_button' = "disabled"
    /\ StartThread("metadata", << >>, FALSE)
    /\ UNCHANGED <<fsVars, found_files, tree, after_queue, faults, metadata_available>>

\* the metadata thread comes to its end
metadata_extraction_worker ==
    \E k \in Running("metadata") :
        /\ threads' = [threads EXCEPT ![k].state = "completed"]
        /\ after_queue' = after_queue \o <<"metadata_normal", "scan_normal">>
        /\ UNCHANGED <<fsVars, scan_button, metadata_button, found_files, tree, faults,
                       metadata_available>>

\* Extract Selected is pressed (the button is never disabled) with the first
\* file item, the last one or a folder holding all of them selected
extract_selected ==
    /\ tree > 0
    /\ Len(threads) < MaxThreads
    /\ \E sel \in {<<<<0>>, TRUE>>, <<<<tree - 1>>, TRUE>>, <<[k \in 1..tree |-> k - 1], FALSE>>} :
          StartThread("extract", sel[1], sel[2])
    /\ scan_button' = "disabled"
    /\ UNCHANGED <<fsVars, metadata_button, found_files, tree, after_queue, faults,
                   metadata_available>>

\* Extract All is pressed (the button is never disabled)
extract_all ==
    /\ found_files > 0
    /\ Len(threads) < MaxThreads
    /\ StartThread("extract", [k \in 1..found_files |-> k - 1], FALSE)
    /\ scan_button' = "disabled"
    /\ UNCHANGED <<fsVars, metadata_button, found_files, tree, after_queue, faults,
                   metadata_available>>

\* one pass of the for loop of _extract_files in thread k, or its end; the
\* directories are made before the inner try, the file is read and written
\* inside it
_extract_files ==
    \E k \in Running("extract") :
        LET t == threads[k]
            idx == t.indices[t.pos]
        IN  /\ IF t.pos > Len(t.indices)
                 THEN /\ threads' = [threads EXCEPT ![k].state = "completed"]
                      /\ after_queue' = Append(after_queue, "show_completion")
                 ELSE IF idx >= found_files
                 THEN /\ threads' = [threads EXCEPT ![k].pos = t.pos + 1,
                                                    ![k].skipped = t.skipped + 1]
                      /\ UNCHANGED after_queue
                 ELSE IF ~ t.flat /\ faults[idx] = "makedirs"
                 THEN /\ threads' = [threads EXCEPT ![k].state = "aborted"]
                      /\ after_queue' = Append(after_queue, "show_error")
                 ELSE IF faults[idx] \in {"read", "write"}
                 THEN /\ threads' = [threads EXCEPT ![k].pos = t.pos + 1,
                                                    ![k].failed = t.failed + 1]
                      /\ UNCHANGED after_queue
                 ELSE /\ threads' = [threads EXCEPT ![k].pos = t.pos + 1,
                                                    ![k].extracted = t.extracted + 1]
                      /\ UNCHANGED after_queue
            /\ UNCHANGED <<fsVars, scan_button, metadata_button, found_files, tree, faults,
                           metadata_available>>

\* the main loop runs the oldest callback given to root.after
AfterCallback ==
    /\ after_queue # << >>
    /\ after_queue' = Tail(after_queue)
    /\ scan_button' = IF Head(after_queue) \in {"scan_normal", "show_completion", "show_error"}
                        THEN "normal" ELSE scan_button
    /\ metadata_button' = IF Head(after_queue) = "metadata_normal"
                            THEN "normal" ELSE metadata_button
    /\ tree' = IF Head(after_queue) = "populate_tree" THEN found_files ELSE tree
    /\ UNCHANGED <<fsVars, found_files, threads, faults, metadata_available>>

(***************************************************************************)
(* Initial states.  The driver is constructed over one volume, which it    *)
(* never writes; Init draws the volume's content from bounded sets.        *)
(***************************************************************************)
ChainIdle ==
    /\ c_pc = "idle"
    /\ c_inum = 0
    /\ num_extents = 0
    /\ xblk_num = 0
    /\ c_xblk = ZeroXblk
    /\ c_i = 0
    /\ consumer = "none"
    /\ emitted = << >>
    /\ seeks = << >>
    /\ truncated = FALSE
    /\ err = ""

DirIdle ==
    /\ d_pc = "idle"
    /\ d_inum = 0
    /\ d_run = <<0, 0>>
    /\ d_i = 0
    /\ d_cur = << >>
    /\ d_consumer = "none"
    /\ yielded = << >>
    /\ ld_state = "idle"
    /\ ld_result = [x \in {} |-> 0]
    /\ ld_entries = << >>
    /\ g_state = "idle"
    /\ g_path = [kind |-> "none", str |-> << >>, int |-> 0, start |-> 0]
    /\ g_stack = << >>
    /\ g_result = << >>
    /\ g_links = << >>
    /\ g_log = << >>

StreamIdle ==
    /\ s_state = "idle"
    /\ s_cur = NoStream
    /\ s_log = << >>

\* QNX4ScannerGUI.__init__: no file found, no thread started; the Extract
\* Metadata button exists only with mutagen and starts disabled
GuiIdle ==
    /\ scan_button = "normal"
    /\ metadata_button = "disabled"
    /\ found_files = 0
    /\ tree = 0
    /\ threads = << >>
    /\ after_queue = << >>

\* the front end is not used: no step of an export fails, mutagen is absent
NoGui ==
    /\ GuiIdle
    /\ faults = [i \in 0..(MaxFiles - 1) |-> "none"]
    /\ metadata_available = FALSE

\* the file and the handles before anything is read
Unread ==
    /\ fh_pos = 0
    /\ i_cache = << >>
    /\ i_log = << >>

\* the file and the handles once QNX4.__init__ has returned: the marker is
\* read and the root handle is cached
Mounted ==
    /\ fs_state = "mounted"
    /\ root = <<QNX4_ROOT_INO * QNX4_INODES_PER_BLOCK>>
    /\ fh_pos = QNX4_BLOCK_SIZE + MARKER_LEN
    /\ i_cache = <<NewHandle(QNX4_ROOT_INO * QNX4_INODES_PER_BLOCK)>>
    /\ i_log = << >>

\* Volumes for the mount check: the name area of block 1, slot 0 is the
\* marker with up to two positions p1, p2 overwritten by byte b, and the
\* volume ends len bytes into the marker, before it, or well after it.
SampleBytes == {0, SLASH, 65}
MarkerWith(p1, p2, b) ==
    [k \in 1..MARKER_LEN |-> IF k \in {p1, p2} THEN b ELSE IF k = 1 THEN SLASH ELSE 0]
MountSizes ==
    {0, 8 * QNX4_BLOCK_SIZE} \cup {QNX4_BLOCK_SIZE + len : len \in 0..MARKER_LEN}
MountVolumes ==
    { [size  |-> sz,
       slots |-> (<<1, 0>> :> [ZeroSlot EXCEPT !.fname = MarkerWith(p1, p2, b) \o tail,
                                               !.status = QNX4_FILE_USED,
                                               !.di_mode = S_IFDIR]),
       xblks |-> << >>,
       lfns  |-> << >>,
       data  |-> << >>] :
        sz \in MountSizes, p1 \in 0..MARKER_LEN, p2 \in {0, 2, MARKER_LEN},
        b \in SampleBytes, tail \in {<< >>, <<65>>} }

InitMount ==
    /\ vol \in MountVolumes
    /\ fs_state = "unmounted"
    /\ root = << >>
    /\ Unread
    /\ ChainIdle
    /\ StreamIdle
    /\ NoGui
    /\ DirIdle

NextMount == Mount

SpecMount == InitMount /\ [][NextMount]_vars

\* Volumes for the chain walk: the walked inode is the root inode (block 1,
\* slot 0); overflow blocks live at the 1-based block numbers XblkPtrs, and
\* FarPtr is a block number past the end of the volume.
XblkPtrs == {200, 201}
ChainVolSize == 1024 * QNX4_BLOCK_SIZE
FarPtr == (ChainVolSize \div QNX4_BLOCK_SIZE) + 1
InlineExtents == {[xtnt_blk |-> 100, xtnt_size |-> 5], [xtnt_blk |-> 2, xtnt_size |-> 1]}
XblkXtnt(p, k) ==
    [xtnt_blk |-> 100 + p + (10 * (k - 1)), xtnt_size |-> 3 + (k - 1) + (2 * (p - 200))]
PtrChoices == {0, FarPtr} \cup XblkPtrs
XblkChoices(p) ==
    { [xblk_next_xblk |-> nx, xblk_num_xtnts |-> n,
       xblk_xtnts |-> [k \in 1..MaxXblkXtnts |-> XblkXtnt(p, k)]] :
        nx \in PtrChoices, n \in 0..MaxXblkXtnts }
XblkTables ==
    {xs \in [XblkPtrs -> UNION {XblkChoices(p) : p \in XblkPtrs}] :
        \A p \in XblkPtrs : xs[p] \in XblkChoices(p)}
ChainVolumes ==
    { [size  |-> ChainVolSize,
       slots |-> (<<1, 0>> :> [ZeroSlot EXCEPT !.fname = <<SLASH>>,
                                               !.status = QNX4_FILE_USED,
                                               !.di_mode = S_IFREG,
                                               !.di_num_xtnts = n,
                                               !.di_first_xtnt = x0,
                                               !.di_xblk = xb]),
       xblks |-> [b \in {p - 1 : p \in XblkPtrs} |-> xs[b + 1]],
       lfns  |-> << >>,
       data  |-> << >>] :
        n \in 0..MaxExtents, x0 \in InlineExtents, xb \in PtrChoices,
        xs \in XblkTables }

InitChain ==
    /\ vol \in ChainVolumes
    /\ Mounted
    /\ ChainIdle
    /\ StreamIdle
    /\ NoGui
    /\ DirIdle

NextChain ==
    \/ dataruns
    \/ ChainStart
    \/ ChainResumeInline
    \/ ChainLoop
    \/ ChainXtnt
    \/ DatarunsReturn

SpecChain == InitChain /\ [][NextChain]_vars

\* the synchronous driver runs every call to its end
FairSpecChain == SpecChain /\ WF_vars(NextChain)

\* Volumes for the directory iterator: the root directory's data is the
\* run(s) a layout gives; the three slots PopSlots hold any of DirSlotShapes
\* and every other slot is zero.  Block 10 holds a long-filename record.
LongName == [k \in 1..(QNX4_SHORT_NAME_MAX + 1) |-> 97]
LinkShape(f, st, blk, ndx, lfn) ==
    [ZeroSlot EXCEPT !.fname = f, !.status = st, !.di_mode = S_IFREG,
                     !.dl_inode_blk = blk, !.dl_inode_ndx = ndx, !.dl_lfn_blk = lfn]
DirSlotShapes ==
    {ZeroSlot}
      \cup {LinkShape(<<97>>, st, 6, 2, 0) : st \in {1, 2, 8, 9}}
      \cup {LinkShape(<<0, 97>>, st, 6, 2, 0) : st \in {1, 8, 9}}
      \cup {LinkShape(LongName, st, 7, 3, 0) : st \in {1, 8}}
      \cup {LinkShape(<<98>>, 1, 0, 0, 0), LinkShape(<<99>>, 10, 0, 5, 10)}
PopSlots == {<<3, 0>>, <<3, 5>>, <<4, 1>>}
DirCutSize == (4 * QNX4_BLOCK_SIZE) + QNX4_DIR_ENTRY_SIZE
DirLayouts ==
    { [n |-> 1, x0 |-> [xtnt_blk |-> 4, xtnt_size |-> 1], xb |-> 0, size |-> ChainVolSize],
      [n |-> 1, x0 |-> [xtnt_blk |-> 4, xtnt_size |-> 2], xb |-> 0, size |-> ChainVolSize],
      [n |-> 1, x0 |-> [xtnt_blk |-> 4, xtnt_size |-> 2], xb |-> 0, size |-> DirCutSize],
      [n |-> 2, x0 |-> [xtnt_blk |-> 4, xtnt_size |-> 1], xb |-> 200, size |-> ChainVolSize] }
RootDirSlot(lay) ==
    [ZeroSlot EXCEPT !.fname = <<SLASH>>, !.status = QNX4_FILE_USED,
                     !.di_mode = S_IFDIR + 493,
                     !.di_num_xtnts = lay.n, !.di_first_xtnt = lay.x0, !.di_xblk = lay.xb]
DirVolumes ==
    { [size  |-> lay.size,
       slots |-> [a \in PopSlots \cup {<<1, 0>>} |->
                    IF a = <<1, 0>> THEN RootDirSlot(lay) ELSE pop[a]],
       xblks |-> (199 :> [xblk_next_xblk |-> 0, xblk_num_xtnts |-> 1,
                          xblk_xtnts |-> <<[xtnt_blk |-> 5, xtnt_size |-> 1]>>]),
       lfns  |-> (9 :> [lfn_name |-> <<98, 0, 97>>]),
       data  |-> << >>] :
        lay \in DirLayouts, pop \in [PopSlots -> DirSlotShapes] }

InitDir ==
    /\ vol \in DirVolumes
    /\ Mounted
    /\ ChainIdle
    /\ StreamIdle
    /\ NoGui
    /\ DirIdle

NextDir ==
    \/ listdir
    \/ IterdirBegin
    \/ ChainStart
    \/ ChainResumeInline
    \/ ChainLoop
    \/ ChainXtnt
    \/ IterSlot
    \/ IterdirChainEnd
    \/ ListdirTake
    \/ ListdirReturn

SpecDir == InitDir /\ [][NextDir]_vars

\* Volumes for the path resolver: the root directory is block 3 and, by the
\* overflow block 200, block 5; its slots GetPopSlots hold any of
\* GetSlotShapes.  Block 4 is the directory
\* "b" (one entry, "b"); blocks 6 and 7 hold the texts of the symlinks "s"
\* (to "b") and "t" (to "t/x", itself); the long-filename record of block 9
\* has an empty name.  The root's status byte may carry the LINK flag.
FileShape(f) == [ZeroSlot EXCEPT !.fname = f, !.status = QNX4_FILE_USED, !.di_mode = S_IFREG]
DirShape(f, blk) ==
    [ZeroSlot EXCEPT !.fname = f, !.status = QNX4_FILE_USED, !.di_mode = S_IFDIR,
                     !.di_num_xtnts = 1, !.di_first_xtnt = [xtnt_blk |-> blk + 1, xtnt_size |-> 1]]
SymlinkShape(f, blk, size) ==
    [ZeroSlot EXCEPT !.fname = f, !.status = QNX4_FILE_USED, !.di_mode = S_IFLNK,
                     !.di_size = size, !.di_num_xtnts = 1,
                     !.di_first_xtnt = [xtnt_blk |-> blk + 1, xtnt_size |-> 1]]
GetSlotShapes ==
    { ZeroSlot,
      FileShape(<<97>>),
      LinkShape(<<97>>, QNX4_FILE_LINK, 6, 2, 0),
      FileShape(<<97, SLASH, 98>>),
      DirShape(<<98>>, 4),
      SymlinkShape(<<115>>, 6, 1),
      SymlinkShape(<<116>>, 7, 3),
      LinkShape(<<99>>, QNX4_FILE_LINK, 6, 3, 10) }
GetPopSlots == {<<3, 0>>, <<3, 2>>, <<5, 1>>}
GetRootSlot(st) ==
    [ZeroSlot EXCEPT !.fname = <<SLASH>>, !.status = st, !.di_mode = S_IFDIR,
                     !.di_num_xtnts = 2, !.di_first_xtnt = [xtnt_blk |-> 4, xtnt_size |-> 1],
                     !.di_xblk = 200]
GetVolumes ==
    { [size  |-> ChainVolSize,
       slots |-> [a \in GetPopSlots \cup {<<1, 0>>, <<4, 1>>} |->
                    IF a = <<1, 0>> THEN GetRootSlot(st)
                    ELSE IF a = <<4, 1>> THEN FileShape(<<98>>)
                    ELSE pop[a]],
       xblks |-> (199 :> [xblk_next_xblk |-> 0, xblk_num_xtnts |-> 1,
                          xblk_xtnts |-> <<[xtnt_blk |-> 6, xtnt_size |-> 1]>>]),
       lfns  |-> (9 :> [lfn_name |-> <<0, 97>>]),
       data  |-> (6 :> <<98>>) @@ (7 :> <<116, SLASH, 120>>)] :
        st \in {QNX4_FILE_USED, QNX4_FILE_USED + QNX4_FILE_LINK},
        pop \in [GetPopSlots -> GetSlotShapes] }

InitGet ==
    /\ vol \in GetVolumes
    /\ Mounted
    /\ ChainIdle
    /\ StreamIdle
    /\ NoGui
    /\ DirIdle

NextGet ==
    \/ listdir
    \/ IterdirBegin
    \/ ChainStart
    \/ ChainResumeInline
    \/ ChainLoop
    \/ ChainXtnt
    \/ IterSlot
    \/ IterdirChainEnd
    \/ ListdirTake
    \/ ListdirReturn
    \/ DatarunsReturn
    \/ GetCall
    \/ GetInum
    \/ GetFor
    \/ GetWhile
    \/ GetLink
    \/ GetTake
    \/ GetLookupEnd

SpecGet == InitGet /\ [][NextGet]_vars

\* Volumes for symlink resolution.  The root (block 3) holds "a" (absent, a
\* file or the directory of block 6), the directory "d" (block 4) and the
\* symlinks "s" (to "u", to "d" or to "s/x", through itself) and "u" (to
\* "d").  "d" holds the symlink "l" (to "/a", "/a/b" or "a"), its own "a"
\* (absent, a file or the directory of block 5) and the file "x".  Both
\* directories "a" hold a file "b".
LinkTexts_s == {<<117>>, <<100>>, <<115, SLASH, 120>>}
LinkTexts_l == {<<SLASH, 97>>, <<SLASH, 97, SLASH, 98>>, <<97>>}
LinkVolumes ==
    { [size  |-> ChainVolSize,
       slots |-> (<<1, 0>> :> [ZeroSlot EXCEPT !.fname = <<SLASH>>,
                                               !.status = QNX4_FILE_USED,
                                               !.di_mode = S_IFDIR,
                                               !.di_num_xtnts = 1,
                                               !.di_first_xtnt = [xtnt_blk |-> 4, xtnt_size |-> 1]])
                 @@ (<<3, 0>> :> ra) @@ (<<3, 1>> :> DirShape(<<100>>, 4))
                 @@ (<<3, 2>> :> SymlinkShape(<<115>>, 7, Len(ts)))
                 @@ (<<3, 3>> :> SymlinkShape(<<117>>, 8, 1))
                 @@ (<<4, 0>> :> SymlinkShape(<<108>>, 9, Len(tl)))
                 @@ (<<4, 1>> :> da) @@ (<<4, 2>> :> FileShape(<<120>>))
                 @@ (<<5, 0>> :> FileShape(<<98>>)) @@ (<<6, 0>> :> FileShape(<<98>>)),
       xblks |-> << >>,
       lfns  |-> << >>,
       data  |-> (7 :> ts) @@ (8 :> <<100>>) @@ (9 :> tl)] :
        ra \in {ZeroSlot, FileShape(<<97>>), DirShape(<<97>>, 6)},
        da \in {ZeroSlot, FileShape(<<97>>), DirShape(<<97>>, 5)},
        ts \in LinkTexts_s, tl \in LinkTexts_l }

InitLink ==
    /\ vol \in LinkVolumes
    /\ Mounted
    /\ ChainIdle
    /\ StreamIdle
    /\ NoGui
    /\ DirIdle

NextLink ==
    \/ GetCallNode
    \/ GetFor
    \/ GetWhile
    \/ ChainStart
    \/ ChainResumeInline
    \/ ChainLoop
    \/ DatarunsReturn
    \/ GetLink
    \/ IterdirBegin
    \/ IterSlot
    \/ IterdirChainEnd
    \/ GetTake
    \/ GetLookupEnd
    \/ GetDone

SpecLink == InitLink /\ [][NextLink]_vars

\* Volumes for the inode reads: the directory volumes whose root has an
\* overflow block, with a file or a link entry in each populated slot.
InodeVolumes ==
    {v \in DirVolumes :
        /\ v.slots[<<1, 0>>].di_xblk # 0
        /\ \A a \in PopSlots :
              v.slots[a] \in {LinkShape(<<98>>, 1, 0, 0, 0), LinkShape(<<97>>, 9, 6, 2, 0)}}

InitInode ==
    /\ vol \in InodeVolumes
    /\ Mounted
    /\ ChainIdle
    /\ StreamIdle
    /\ NoGui
    /\ DirIdle

NextInode ==
    \/ InodeRead
    \/ listdir
    \/ IterdirBegin
    \/ ChainStart
    \/ ChainResumeInline
    \/ ChainLoop
    \/ ChainXtnt
    \/ IterSlot
    \/ IterdirChainEnd
    \/ ListdirTake
    \/ ListdirReturn

SpecInode == InitInode /\ [][NextInode]_vars

\* Volumes for a caller's loop over the root: the directory volumes of every
\* layout, with a file or a link entry in each populated slot.  listdir runs
\* first, then the caller's loop.
IterVolumes ==
    {v \in DirVolumes :
        \A a \in PopSlots :
            v.slots[a] \in {LinkShape(<<98>>, 1, 0, 0, 0), LinkShape(<<97>>, 9, 6, 2, 0)}}

InitIter ==
    /\ vol \in IterVolumes
    /\ Mounted
    /\ ChainIdle
    /\ StreamIdle
    /\ NoGui
    /\ DirIdle

NextIter ==
    \/ listdir
    \/ IterdirBegin
    \/ ChainStart
    \/ ChainResumeInline
    \/ ChainLoop
    \/ ChainXtnt
    \/ IterSlot
    \/ IterdirChainEnd
    \/ ListdirTake
    \/ ListdirReturn
    \/ iterdir
    \/ EntryRead
    \/ CallerNext
    \/ CallerEnd

SpecIter == InitIter /\ [][NextIter]_vars

\* Volumes for the streams: slot 0 of block 3 is a regular file of declared
\* size di_size whose chain gives the run of block 99 alone or, with the
\* overflow block 200, the run of block 299 as well; both blocks hold data.
BlockPattern(a) == [k \in 1..QNX4_BLOCK_SIZE |-> ((k * a) + 1) % 251]
StreamFile(size, n) ==
    [ZeroSlot EXCEPT !.fname = <<102>>, !.status = QNX4_FILE_USED, !.di_mode = S_IFREG,
                     !.di_size = size, !.di_num_xtnts = n,
                     !.di_first_xtnt = [xtnt_blk |-> 100, xtnt_size |-> 1],
                     !.di_xblk = IF n > 1 THEN 200 ELSE 0]
StreamVolumes ==
    { [size  |-> ChainVolSize,
       slots |-> (<<1, 0>> :> [ZeroSlot EXCEPT !.fname = <<SLASH>>,
                                               !.status = QNX4_FILE_USED,
                                               !.di_mode = S_IFDIR,
                                               !.di_num_xtnts = 1,
                                               !.di_first_xtnt = [xtnt_blk |-> 4, xtnt_size |-> 1]])
                 @@ (<<3, 0>> :> StreamFile(size, n)),
       xblks |-> (199 :> [xblk_next_xblk |-> 0, xblk_num_xtnts |-> 1,
                          xblk_xtnts |-> <<[xtnt_blk |-> 300, xtnt_size |-> 1]>>]),
       lfns  |-> << >>,
       data  |-> (99 :> BlockPattern(3)) @@ (299 :> BlockPattern(7))] :
        size \in {0, 5, 600, 1024, 1100}, n \in {1, 2} }

InitStream ==
    /\ vol \in StreamVolumes
    /\ Mounted
    /\ ChainIdle
    /\ StreamIdle
    /\ NoGui
    /\ DirIdle

NextStream ==
    \/ open
    \/ ChainStart
    \/ ChainResumeInline
    \/ ChainLoop
    \/ ChainXtnt
    \/ DatarunsReturn
    \/ OpenReturn
    \/ StreamReadN
    \/ StreamClose

SpecStream == InitStream /\ [][NextStream]_vars

\* The front end over one mounted volume: any step of the export of any file
\* may fail, and mutagen may be present or not.
InitGui ==
    /\ vol \in {v \in StreamVolumes :
                  v.slots[<<3, 0>>].di_size = 5 /\ v.slots[<<3, 0>>].di_num_xtnts = 1}
    /\ Mounted
    /\ ChainIdle
    /\ StreamIdle
    /\ DirIdle
    /\ GuiIdle
    /\ faults \in [0..(MaxFiles - 1) -> {"none", "makedirs", "read", "write"}]
    /\ metadata_available \in BOOLEAN

NextGui ==
    \/ start_scan
    \/ scan_worker
    \/ start_metadata_extraction
    \/ metadata_extraction_worker
    \/ extract_selected
    \/ extract_all
    \/ _extract_files
    \/ AfterCallback

SpecGui == InitGui /\ [][NextGui]_vars

(***************************************************************************)
(* Properties of the mount check and of the extent-chain walk              *)
(***************************************************************************)
\* the inode the chain specifications walk, as stored on the volume
ChainInode == vol.slots[<<1, 0>>]

\* the byte at position k (1-based) of the 16 bytes at offset 512, if the
\* volume holds it
MarkerByteOnDisk(k) ==
    LET name == vol.slots[<<1, 0>>].fname
    IN  IF k <= Len(name) THEN name[k] ELSE 0

\* C1: opening succeeds if and only if the 16 bytes at offset block_size are
\* all there and are '/' followed by 15 zero bytes; any other content, a
\* short read included, fails with InvalidFilesystemError and leaves no
\* root handle; on success the root handle has inode number
\* QNX4_ROOT_INO * QNX4_INODES_PER_BLOCK = 8.
C1_MountIffMarker ==
    fs_state # "unmounted" =>
        /\ (fs_state = "mounted") <=>
              (/\ vol.size >= 512 + 16
               /\ MarkerByteOnDisk(1) = 47
               /\ \A k \in 2..16 : MarkerByteOnDisk(k) = 0)
        /\ fs_state = "mounted" => root = <<8>>
        /\ fs_state # "mounted" =>
              (fs_state = "InvalidFilesystemError" /\ root = << >>)

C1_Witness ==
    /\ fs_state = "mounted"
    /\ root = <<8>>
    /\ Len(vol.slots[<<1, 0>>].fname) > 16

\* C2: the remaining-extent counter is decremented once for the inline
\* extent and once per extent emitted from an overflow block, and no
\* overflow block is seeked to once the number of emitted extents has
\* reached the inode's extent count.
C2_StopsAtCount ==
    \A k \in 1..Len(seeks) :
        /\ seeks[k].remaining = ChainInode.di_num_xtnts - seeks[k].yielded
        /\ seeks[k].yielded < ChainInode.di_num_xtnts

\* C3: every extent-chain walk terminates, whatever the volume holds.
C3_ChainTerminates == <>(consumer \in {"returned", "raised"})

\* C4: no overflow seek uses pointer 0: every seek has pointer >= 1 and a
\* target offset (pointer - 1) * block_size >= 0; an inode whose
\* first-overflow pointer is 0 causes no seek at all, and no seek follows
\* the read of an overflow block whose next-pointer is 0.
C4_NoZeroPointerSeek ==
    /\ \A k \in 1..Len(seeks) :
          /\ seeks[k].ptr >= 1
          /\ seeks[k].off = (seeks[k].ptr - 1) * 512
          /\ seeks[k].off >= 0
          /\ (seeks[k].ptr - 1 \in DOMAIN vol.xblks
                /\ vol.xblks[seeks[k].ptr - 1].xblk_next_xblk = 0) => k = Len(seeks)
    /\ ChainInode.di_xblk = 0 => seeks = << >>
    /\ (c_pc = "loop" /\ xblk_num = 0) => ~ ENABLED (ChainLoop /\ seeks' # seeks)

C4_Witness ==
    /\ consumer = "returned"
    /\ num_extents > 0
    /\ Len(seeks) = 2
    /\ vol.xblks[seeks[2].ptr - 1].xblk_next_xblk = 0

\* C5: an inode with extent count 1 yields exactly its inline extent and
\* causes no overflow seek, whatever its first-overflow pointer is; an inode
\* with extent count 0 yields nothing.
C5_SingleExtent ==
    /\ ChainInode.di_num_xtnts <= 1 =>
          /\ seeks = << >>
          /\ c_pc # "error"
          /\ Len(emitted) <= ChainInode.di_num_xtnts
    /\ (ChainInode.di_num_xtnts = 1 /\ consumer = "returned") =>
          emitted = << <<ChainInode.di_first_xtnt.xtnt_blk - 1,
                         ChainInode.di_first_xtnt.xtnt_size>> >>
    /\ (ChainInode.di_num_xtnts = 0 /\ consumer # "none") => emitted = << >>

C5_Witness ==
    /\ consumer = "returned"
    /\ ChainInode.di_num_xtnts = 1
    /\ ChainInode.di_xblk \in XblkPtrs
    /\ vol.xblks[ChainInode.di_xblk - 1].xblk_num_xtnts > 0
    /\ Len(emitted) = 1

\* the extents of the overflow block at pointer p, as 0-based runs
RECURSIVE FlattenSeq(_)
FlattenSeq(ss) == IF ss = << >> THEN << >> ELSE Head(ss) \o FlattenSeq(Tail(ss))
BlockRuns(p) ==
    IF p - 1 \in DOMAIN vol.xblks
      THEN LET xb == vol.xblks[p - 1]
           IN  [k \in 1..xb.xblk_num_xtnts |->
                   <<xb.xblk_xtnts[k].xtnt_blk - 1, xb.xblk_xtnts[k].xtnt_size>>]
      ELSE << >>
IsPrefix(a, b) == Len(a) <= Len(b) /\ SubSeq(b, 1, Len(a)) = a
RunsOfSeeks ==
    << <<ChainInode.di_first_xtnt.xtnt_blk - 1, ChainInode.di_first_xtnt.xtnt_size>> >>
        \o FlattenSeq([k \in 1..Len(seeks) |-> BlockRuns(seeks[k].ptr)])
IsScenario ==
    /\ ChainInode.di_num_xtnts = 2
    /\ ChainInode.di_first_xtnt = [xtnt_blk |-> 100, xtnt_size |-> 5]
    /\ ChainInode.di_xblk = 200
    /\ vol.xblks[199].xblk_num_xtnts = 1
    /\ vol.xblks[199].xblk_xtnts[1] = [xtnt_blk |-> 300, xtnt_size |-> 3]
    /\ vol.xblks[199].xblk_next_xblk = 0

\* C6: the runs are the inline extent, then the extents of each overflow
\* block read, in chain order and within a block in array order, each as
\* (stored block - 1, length); extent count 2, inline (100,5), overflow block
\* 200 = [(300,3)], next 0 gives [(99,5),(299,3)] with the one seek to
\* 199 * block_size.
C6_RunOrder ==
    /\ (consumer # "none" /\ ~ truncated) => IsPrefix(emitted, RunsOfSeeks)
    /\ (consumer = "returned" /\ ~ truncated /\ ChainInode.di_num_xtnts >= 1) =>
          emitted = RunsOfSeeks
    /\ (consumer = "returned" /\ IsScenario) =>
          /\ emitted = << <<99, 5>>, <<299, 3>> >>
          /\ Len(seeks) = 1
          /\ seeks[1].off = 199 * 512

C6_Witness ==
    /\ consumer = "returned"
    /\ IsScenario
    /\ emitted = << <<99, 5>>, <<299, 3>> >>
    /\ Len(seeks) = 1

(***************************************************************************)
(* Properties of the directory iterator                                    *)
(***************************************************************************)
\* the slot stored at slot i of the run that starts at 0-based block b
DiskSlot(b, i) ==
    LET a == <<b + (i \div 8), i % 8>>
    IN  IF a \in DOMAIN vol.slots THEN vol.slots[a] ELSE ZeroSlot
HasBit(status, bit) == (status \div bit) % 2 = 1
FirstNameByte(slot) == IF slot.fname = << >> THEN 0 ELSE slot.fname[1]
Classifiable(slot) ==
    FirstNameByte(slot) # 0 /\ (HasBit(slot.status, 1) \/ HasBit(slot.status, 8))
\* the slots of the runs the walk of the directory gave, as (run, slot) pairs
RunSlots ==
    UNION {{<<k, i>> : i \in 0..((8 * emitted[k][2]) - 1)} : k \in 1..Len(emitted)}
NClassifiable ==
    Cardinality({ks \in RunSlots : Classifiable(DiskSlot(emitted[ks[1]][1], ks[2]))})
YieldedNames == {yielded[k].name : k \in 1..Len(yielded)}

\* C7: an entry yielded from slot i of a run starting at block b has inode
\* number (link_block - 1) * 8 + link_index if the slot's status has the LINK
\* flag (with or without USED), and b * 8 + i otherwise.
C7_YieldedInum ==
    \A k \in 1..Len(yielded) :
        LET y == yielded[k]
            slot == DiskSlot(y.block, y.slot)
        IN  /\ \E r \in 1..Len(emitted) : emitted[r][1] = y.block
            /\ IF HasBit(slot.status, 8)
                 THEN y.inum = ((slot.dl_inode_blk - 1) * 8) + slot.dl_inode_ndx
                 ELSE y.inum = (y.block * 8) + y.slot

C7_Witness ==
    /\ ld_state = "returned"
    /\ \E k, j \in 1..Len(yielded) :
          /\ DiskSlot(yielded[k].block, yielded[k].slot).status = 9
          /\ yielded[k].inum = 42
          /\ DiskSlot(yielded[j].block, yielded[j].slot).status = 1
          /\ yielded[j].slot = 9
          /\ yielded[j].inum = 33

\* C8: no entry is yielded for a slot whose first name byte is 0, whatever
\* its status, nor for a slot whose status has neither USED nor LINK; such
\* a slot raises nothing and the iteration goes on with the next slot.
C8_YieldedAreClassifiable ==
    \A k \in 1..Len(yielded) :
        LET slot == DiskSlot(yielded[k].block, yielded[k].slot)
        IN  /\ FirstNameByte(slot) # 0
            /\ HasBit(slot.status, 1) \/ HasBit(slot.status, 8)
C8_AtSkippedSlot ==
    /\ d_pc = "slots"
    /\ d_i < 8 * d_run[2]
    /\ (d_run[1] * 512) + (d_i * 64) + 64 <= vol.size
    /\ ~ Classifiable(DiskSlot(d_run[1], d_i))
C8_NoUnusedYield ==
    /\ [] C8_YieldedAreClassifiable
    /\ [][C8_AtSkippedSlot =>
            (d_pc' = "slots" /\ d_i' = d_i + 1 /\ yielded' = yielded /\ err' = "")]_vars

C8_Witness ==
    /\ ld_state = "returned"
    /\ DiskSlot(3, 0).status = 9
    /\ FirstNameByte(DiskSlot(3, 0)) = 0
    /\ DiskSlot(3, 0).fname # << >>
    /\ DiskSlot(3, 5).status = 2
    /\ Len(yielded) = 1
    /\ yielded[1].slot = 9

\* C9 as claimed: listdir on a directory whose runs hold N classifiable
\* slots returns a mapping with exactly N entries, also when two
\* classifiable slots decode to the same name.
C9_ExactlyN ==
    ld_state = "returned" => Cardinality(DOMAIN ld_result) = NClassifiable

\* C9 as amended: listdir, when it returns, has seen exactly the N
\* classifiable slots and returns one entry per distinct decoded name among
\* them: exactly N entries when the N names are pairwise distinct, fewer
\* otherwise.
C9_OnePerDistinctName ==
    ld_state = "returned" =>
        /\ Len(yielded) = NClassifiable
        /\ DOMAIN ld_result = YieldedNames
        /\ Cardinality(DOMAIN ld_result) <= NClassifiable
        /\ (\A k, j \in 1..Len(yielded) : yielded[k].name = yielded[j].name => k = j)
              => Cardinality(DOMAIN ld_result) = NClassifiable

C9_Witness ==
    /\ ld_state = "returned"
    /\ NClassifiable = 3
    /\ Cardinality(DOMAIN ld_result) = 2
    /\ \E a \in RunSlots : ~ Classifiable(DiskSlot(emitted[a[1]][1], a[2]))

\* the iteration is at a slot whose 64 bytes the volume does not hold in full
C17_AtShortSlot ==
    /\ d_pc = "slots"
    /\ d_i < 8 * d_run[2]
    /\ (d_run[1] * 512) + (d_i * 64) + 64 > vol.size

\* the slots before slot d_i of the current run that are classifiable
ClassifiableBefore == {i \in 0..(d_i - 1) : Classifiable(DiskSlot(d_run[1], i))}

\* C17: at a slot whose read returns fewer than 64 bytes iterdir raises Error
\* and yields nothing for it; nothing is yielded afterwards; the entries
\* yielded before are those of the classifiable earlier slots, in slot
\* order; listdir on the directory raises and does not return a mapping.
C17_ShortReadFatal ==
    /\ [][C17_AtShortSlot => (d_pc' = "error" /\ err' = "Error" /\ yielded' = yielded)]_vars
    /\ [][err = "Error" => (yielded' = yielded /\ err' = "Error")]_vars
    /\ [](err = "Error" =>
            /\ ld_state \in {"running", "raised"}
            /\ Len(emitted) = 1
            /\ Len(yielded) = Cardinality(ClassifiableBefore)
            /\ \A k \in 1..Len(yielded) :
                  /\ yielded[k].block = d_run[1]
                  /\ yielded[k].slot \in ClassifiableBefore
                  /\ \A j \in 1..Len(yielded) : k < j => yielded[k].slot < yielded[j].slot)
    /\ [](ld_state = "returned" =>
            \A a \in RunSlots : (emitted[a[1]][1] * 512) + (a[2] * 64) + 64 <= vol.size)

\* C17 witness: listdir raised at slot 9 of a two-block run whose second
\* block the volume holds only the first slot of, after two entries were
\* yielded.
C17_Witness ==
    /\ ld_state = "raised"
    /\ err = "Error"
    /\ d_i = 9
    /\ d_run = <<3, 2>>
    /\ Len(yielded) = 2
    /\ vol.size = (4 * 512) + 64

(***************************************************************************)
(* Properties of the path resolver                                         *)
(***************************************************************************)
\* get has finished a call with a str path
GetFinished == g_state \notin {"idle", "running"} /\ g_path.kind = "str"

\* the positions in the listing of the root of the pairs named name
EntriesNamed(name) == {k \in 1..Len(ld_entries) : ld_entries[k].name = name}

\* the first pair of the listing named name
FirstPos(name) == CHOOSE k \in EntriesNamed(name) : \A j \in EntriesNamed(name) : k <= j
FirstNamed(name) == ld_entries[FirstPos(name)]

HasSlash(name) == \E k \in 1..Len(name) : name[k] = SLASH

RootInode == _read_inode(vol, root[1])

\* C10 (as stated): for every (name, inode) pair iterdir(root) yielded,
\* get(name, root) returns a handle with the pair's inode number, duplicate
\* names and names containing '/' included.
C10_RoundTrip ==
    GetFinished =>
        \A k \in EntriesNamed(g_path.str) :
            g_state = "returned" /\ g_result = <<ld_entries[k].inum>>

\* C10 (amended): when the root is not a symlink, for every pair iterdir(root)
\* yielded whose name is not empty, contains no '/' and is not yielded from
\* an earlier slot as well, get(name, root) returns a handle with the pair's
\* inode number.
C10_RoundTripFirst ==
    ( /\ GetFinished
      /\ ~ is_symlink(RootInode)
      /\ g_path.str # << >>
      /\ ~ HasSlash(g_path.str)
      /\ EntriesNamed(g_path.str) # {} )
    => /\ g_state = "returned"
       /\ g_result = <<FirstNamed(g_path.str).inum>>

\* C10 witness: get returned the first of two pairs of one name that carry
\* different inode numbers.
C10_Witness ==
    /\ GetFinished
    /\ ~ is_symlink(RootInode)
    /\ g_state = "returned"
    /\ \E j, k \in EntriesNamed(g_path.str) :
          /\ j < k
          /\ ld_entries[j].inum # ld_entries[k].inum
          /\ j = FirstPos(g_path.str)
          /\ g_result = <<ld_entries[j].inum>>

\* the last pair of the listing named name
LastPos(name) == CHOOSE k \in EntriesNamed(name) : \A j \in EntriesNamed(name) : j <= k

\* the position of the run that starts at block among the runs of the walk
RunIndex(block) == CHOOSE r \in 1..Len(emitted) : emitted[r][1] = block

YieldedNamesOfListing == {ld_entries[k].name : k \in 1..Len(ld_entries)}

AllLinks ==
    {g_links[k] : k \in 1..Len(g_links)}
        \cup UNION {{g_log[c].links[k] : k \in 1..Len(g_log[c].links)} : c \in 1..Len(g_log)}

IsAbsolute(text) == text # << >> /\ text[1] = SLASH

\* C11: a symlink whose content is an absolute path, met with its parent
\* available, resolves to the inode get of that path from the filesystem
\* root returns, whatever directory the symlink lives in.
C11_AbsoluteFromRoot ==
    \A r \in AllLinks : \A c \in 1..Len(g_log) :
        ( /\ IsAbsolute(r.text)
          /\ r.state # "running"
          /\ g_log[c].start = root[1]
          /\ g_log[c].path = r.text
          /\ (r.state = "returned" \/ g_log[c].state = "returned") )
        => /\ r.state = g_log[c].state
           /\ r.result = g_log[c].result

\* the record of inode number i as the volume stores it
DiskInode(i) ==
    IF <<i \div 8, i % 8>> \in DOMAIN vol.slots THEN vol.slots[<<i \div 8, i % 8>>]
    ELSE ZeroSlot

\* directory inode dir has, in the one-block run its record names, a plain
\* classifiable slot that holds inode number inum
ParentOf(dir, inum) ==
    /\ is_dir(DiskInode(dir))
    /\ \E i \in 0..7 :
          LET b == DiskInode(dir).di_first_xtnt.xtnt_blk - 1
          IN  Classifiable(DiskSlot(b, i)) /\ (b * 8) + i = inum

\* C14: every symlink get resolves is resolved starting from its parent, the
\* directory whose entry yielded the symlink, also when the symlink was the
\* result of resolving another symlink.
C14_FromParent ==
    \A r \in AllLinks : ParentOf(r.start, r.link)

\* the frame at the top of the stack is at the while test with a readable
\* symlink as node and no prev_node
SymlinkWithoutPrev ==
    /\ g_state = "running"
    /\ g_stack # << >>
    /\ Top.pc = "while"
    /\ InodeReadable(vol, Top.node)
    /\ is_symlink(_read_inode(vol, Top.node))
    /\ Top.prev = << >>

\* C15: when a component remains, the current node is a symlink and there is
\* no previous node, get fails with an error kind other than the one it
\* raises when a component has no matching directory entry
\* (FileNotFoundError, line 86).
C15_BrokenLinkKind ==
    [][SymlinkWithoutPrev => (g_state' \notin {"running", "returned"}
                              /\ g_state' # "FileNotFoundError")]_vars

\* the call in progress, or just left, is get("s/x", root) on a volume whose
\* symlink "s" of the root holds the path "s/x"
CyclicCall ==
    /\ g_path.kind = "str"
    /\ g_path.str = <<115, SLASH, 120>>
    /\ g_path.start = root[1]
    /\ vol.data[7] = <<115, SLASH, 120>>

\* C16: get("s/x", D), with s a symlink of D whose content is "s/x", neither
\* returns an inode nor fails with one of get's typed errors: each
\* resolution of s enters get again, one frame deeper, until the
\* interpreter's stack is used up.
C16_NoCycleGuard ==
    CyclicCall =>
        /\ g_state \in {"running", "RecursionError"}
        /\ g_state = "running" =>
              \A k \in 1..Len(g_stack) :
                  /\ g_stack[k].node \in {root[1], PlainInum(3, 2)}
                  /\ k < Len(g_stack) => g_stack[k].pc = "call"
        /\ \A k \in 1..Len(g_links) :
              g_links[k].link = PlainInum(3, 2) /\ g_links[k].start = root[1]

\* C16 witness: the resolution of "s/x" has entered get as deep as the stack
\* allows, every frame but the last waiting for the next, and was ended by
\* the stack running out.
C16_Witness ==
    /\ CyclicCall
    /\ g_state = "RecursionError"
    /\ Len(g_links) = MaxDepth - 1
    /\ \A k \in 1..Len(g_links) : g_links[k].text = <<115, SLASH, 120>>

(***************************************************************************)
(* Properties of the byte streams                                          *)
(***************************************************************************)
\* the streams the model opened
AllStreams == {s_log[k] : k \in 1..Len(s_log)} \cup (IF s_state = "open" THEN {s_cur} ELSE {})

\* stream t was read with one read of all its bytes first
ReadWhole(t) == t.reads # << >> /\ t.reads[1].n = -1

\* stream t was read with a read of half its size and then a read of the rest
ReadHalves(t) ==
    /\ Len(t.reads) >= 2
    /\ t.reads[1].n = t.size \div 2
    /\ t.reads[2].n = -1

\* data are the n bytes the runs of t map the logical offsets from..from+n-1 to
MappedFrom(t, data, from, n) ==
    /\ Len(data) = n
    /\ \A o \in 1..n :
          /\ from + o <= RunsBytes(t.runs)
          /\ data[o] = DataByteAt(vol, PhysOffset(t.runs, from + o - 1))

\* C13: reading a stream of declared size S with one read and reading it
\* with a read of S div 2 bytes and a read of the rest give the same bytes,
\* each exactly S bytes mapped run by run from the runlist; a read issued
\* after S bytes were consumed returns no bytes.
C13_ExactRead ==
    \A t, u \in AllStreams :
        /\ ReadWhole(t) => MappedFrom(t, t.reads[1].data, 0, t.size)
        /\ ReadHalves(u) => MappedFrom(u, u.reads[1].data \o u.reads[2].data, 0, u.size)
        /\ (ReadWhole(t) /\ ReadHalves(u) /\ t.inum = u.inum) =>
              t.reads[1].data = u.reads[1].data \o u.reads[2].data
        /\ \A k \in 1..Len(t.reads) : t.reads[k].at >= t.size => t.reads[k].data = << >>

(***************************************************************************)
(* Properties of a caller's loop over a directory                          *)
(***************************************************************************)
\* the pairs of the finished listing and of the running loop
AllYielded ==
    {ld_entries[k] : k \in 1..Len(ld_entries)} \cup {yielded[k] : k \in 1..Len(yielded)}

\* C21: for every plain USED entry yielded from slot i of a run (b, length),
\* slots beyond the run's first block included, the record of the yielded
\* inode number is read at the byte offset of that slot,
\* (inum div 8) * 512 + (inum mod 8) * 64 = b * 512 + i * 64, and is the slot.
C21_InodeAtSlot ==
    \A y \in AllYielded : \A j \in 1..Len(i_log) :
        ( /\ ~ HasBit(DiskSlot(y.block, y.slot).status, 8)
          /\ i_log[j].inum = y.inum
          /\ ~ i_log[j].cached )
        => /\ i_log[j].off = (y.block * 512) + (y.slot * 64)
           /\ i_log[j].off = ((y.inum \div 8) * 512) + ((y.inum % 8) * 64)
           /\ i_log[j].ok
           /\ i_log[j].rec = DiskSlot(y.block, y.slot)

\* C21 witness: the record of a plain entry yielded from slot 9 of the run
\* (3, 2), in the run's second block, was read from the volume at offset
\* 3 * 512 + 9 * 64.
C21_Witness ==
    \E k \in 1..Len(yielded) : \E j \in 1..Len(i_log) :
        /\ yielded[k].block = 3
        /\ yielded[k].slot = 9
        /\ DiskSlot(3, 9).status = 1
        /\ i_log[j].inum = yielded[k].inum
        /\ ~ i_log[j].cached
        /\ i_log[j].off = 2112

\* C22: the pairs a directory iteration yields do not depend on what its
\* consumer reads between two yields: the loop of a caller that reads inode
\* records between the pairs, moving the file's position, is given the pairs
\* the uninterrupted iteration of listdir was given, in the same order, and
\* ends as that one ended, with the same exception if any.
C22_InterleavingSafe ==
    /\ [](d_consumer = "caller" =>
            /\ IsPrefix(yielded, ld_entries)
            /\ d_pc = "done" => (ld_state = "returned" /\ yielded = ld_entries)
            /\ d_pc = "error" => (ld_state = "raised" /\ yielded = ld_entries))
    /\ [][d_consumer = "caller" => err' = err]_vars

\* C22 witness: the caller's loop came to its end with three pairs after two
\* reads of different inode records from the volume in its body, the second
\* of which found the file where the generators had left it.
C22_Witness ==
    /\ d_consumer = "caller"
    /\ d_pc = "done"
    /\ Len(yielded) = 3
    /\ Len(i_log) >= 6
    /\ ~ i_log[5].cached
    /\ ~ i_log[6].cached
    /\ i_log[5].inum # i_log[6].inum
    /\ i_log[6].from # i_log[5].off + 64
    /\ i_log[5].from # i_log[5].off

(***************************************************************************)
(* Properties of the front end                                             *)
(***************************************************************************)
\* C19: in _extract_files the failure of one file, whichever step fails, is
\* counted as failed and every later index is still attempted: a thread of
\* _extract_files ends by completing, with every index either skipped as out
\* of range or counted as extracted or failed.
C19_FailureNonFatal ==
    \A k \in 1..Len(threads) :
        (threads[k].kind = "extract" /\ threads[k].state # "running") =>
            /\ threads[k].state = "completed"
            /\ threads[k].extracted + threads[k].failed
                 = Len(threads[k].indices) - threads[k].skipped

\* C20: at most one worker thread is running at any time.
C20_OneWorker ==
    Cardinality({k \in 1..Len(threads) : threads[k].state = "running"}) <= 1

(***************************************************************************)
(* Properties of the inode reads                                           *)
(***************************************************************************)
\* C12: every read of the record of inode i gives the same field values,
\* those the volume stores, whatever was done between two reads; a read that
\* goes to the volume reads at (i div 8) * 512 + (i mod 8) * 64.
C12_IdempotentRead ==
    \A j, k \in 1..Len(i_log) :
        /\ i_log[j].ok
        /\ i_log[j].rec = DiskInode(i_log[j].inum)
        /\ ~ i_log[j].cached =>
              i_log[j].off = ((i_log[j].inum \div 8) * 512) + ((i_log[j].inum % 8) * 64)
        /\ i_log[j].inum = i_log[k].inum => i_log[j].rec = i_log[k].rec

\* C12 witness: two reads of one inode that both went to the volume, the
\* handle having left the cache in between, found the file at different
\* positions; a third read was answered by the handle.
C12_Witness ==
    \E j, k, m \in 1..Len(i_log) :
        /\ j < k
        /\ i_log[j].inum = i_log[k].inum
        /\ ~ i_log[j].cached /\ ~ i_log[k].cached
        /\ i_log[j].from # i_log[k].from
        /\ i_log[j].from # i_log[j].off
        /\ i_log[m].cached
        /\ ld_state = "returned"
        /\ i_log[j].rec # ZeroSlot

=============================================================================
